---- MODULE Spec2Model ----
(***************************************************************************)
(* The module load/solve orchestrator of src/src/load/mod.rs.              *)
(*                                                                         *)
(* `load` reads the root file, then drains one channel of Header,          *)
(* Constrained and Solved messages.  Background tasks read the imported    *)
(* files, parse + canonicalize + constrain module bodies and solve them.   *)
(* A module name and its interned ModuleId are identified: ModuleIds hands *)
(* out dense ids in the order in which names are first interned, so a name *)
(* seen for the first time is the next unused id.                          *)
(***************************************************************************)
EXTENDS Integers, Sequences, FiniteSets, TLC

\* Largest module id of a session (ids are 0..MaxModule).
MaxModule == 2

Modules == 0 .. MaxModule

\* Module ids seeded by IdentIds::exposed_builtins() and pre-interned by
\* ModuleIds::default().
Builtins == {0}

\* The id the root module's declared name is interned to.
root_id == 1

VARIABLES
    status,            \* where the call of `load` is, or what it returned
    debug,             \* whether debug_assert! is compiled in
    loaded_modules,    \* the keys of the exposed_types argument of `load`
    orch,              \* the local tables of `load`
    task,              \* the background task working for each module
    msgs,              \* messages whose send task is spawned, not yet received
    deps_by_name,      \* ModuleHeader.deps_by_name of every header parsed
    processed,         \* per module, the kinds of message handled so far
    reads,             \* per module, how many load_module tasks were spawned
    released,          \* modules taken out of unsolved_modules by a listener
    pruned,            \* <<m, d>>: the Constrained arm dropped d from m's wait set
    assert_failures,   \* debug_assert! conditions that were false when reached
    solved_log,        \* the problem lists of the Solved messages handled, in order
    result,            \* <<the LoadedModule returned>>, empty until load returns Ok
    send_failed,       \* messages whose send task met the closed channel
    p_in,              \* the input handed to a function of the parser
    p_out              \* <<what the function returned>>, empty until it has run

vars == <<status, debug, loaded_modules, orch, task, msgs, deps_by_name,
          processed, reads, released, pruned,
                   assert_failures, solved_log, result,
          send_failed, p_in, p_out>>

----------------------------------------------------------------------------
\* MutMap helpers: a map is a function whose DOMAIN is its key set.

EmptyMap == [k \in {} |-> {}]

Put(map, k, v) == [x \in (DOMAIN map) \cup {k} |-> IF x = k THEN v ELSE map[x]]

Remove(map, k) == [x \in (DOMAIN map) \ {k} |-> map[x]]

----------------------------------------------------------------------------
\* The shared ModuleIds table and its mutex.

\* Names interned so far: the builtins, the root's declared name and every
\* import of a header that went through send_interface_header.
Interned ==
    Builtins \cup (IF status = "Start" THEN {} ELSE {root_id})
             \cup UNION {deps_by_name[m] : m \in DOMAIN deps_by_name}

\* Tasks that hold a clone of arc_modules.
ArcHolders == {m \in Modules : task[m] \in {"reading", "parse", "canon", "sent"}}

\* The module_ids mutex is held by parse_and_constrain from the lock() to the
\* end of the function.
LockHeld == \E m \in Modules : task[m] \in {"canon", "sent"}

\* The guard was alive when canonicalization panicked.
Poisoned == \E m \in Modules : task[m] = "panic_canon"

\* What an interface header may import: names already interned (in any
\* combination) and names interned for the first time, which get the next ids.
FreshPrefixes(known) ==
    LET next == IF known = {} THEN 0
                ELSE (CHOOSE x \in known : \A y \in known : y <= x) + 1
    IN  {next .. k : k \in (next - 1) .. MaxModule}

ImportChoices(known) ==
    {S \cup F : S \in SUBSET known, F \in FreshPrefixes(known)}

\* Modules reachable from the set `from` through the headers parsed so far,
\* extended with the imports `extra` of module `m`.
RECURSIVE Reach(_, _, _, _)
Reach(from, m, extra, seen) ==
    LET Succ(x) == IF x = m THEN extra
                   ELSE IF x \in DOMAIN deps_by_name THEN deps_by_name[x]
                   ELSE {}
        next == (UNION {Succ(x) : x \in from}) \ seen
    IN  IF next = {} THEN seen
        ELSE Reach(next, m, extra, seen \cup next)

\* Imports that keep the import graph acyclic.
AcyclicChoices(m, known) ==
    {S \in ImportChoices(known) : m \notin Reach({m}, m, S, {})}

\* The imports a header may declare: any at all, or only those that keep the
\* import graph acyclic.
Imports(m, known, acyclic) ==
    IF acyclic THEN AcyclicChoices(m, known) ELSE ImportChoices(known)

----------------------------------------------------------------------------
TaskStates ==
    {"idle", "reading", "FileProblem", "ParsingFailed", "panic_app",
     "panic_lock", "loaded", "parse", "panic_defs", "canon", "panic_canon",
     "sent", "returned"}

Header(m) == [kind |-> "Header", module_id |-> m, cycle |-> FALSE]

Constrained(m, c) == [kind |-> "Constrained", module_id |-> m, cycle |-> c]

Solved(m) == [kind |-> "Solved", module_id |-> m, cycle |-> FALSE]

InitOrch ==
    [loading_started          |-> {},
     exposed_idents_by_module |-> Builtins,
     exposed_types            |-> loaded_modules,
     waiting_for_headers      |-> EmptyMap,
     header_listeners         |-> EmptyMap,
     unparsed_modules         |-> EmptyMap,
     waiting_for_solve        |-> EmptyMap,
     solve_listeners          |-> EmptyMap,
     unsolved_modules         |-> EmptyMap,
     constrained_ident_ids    |-> {},
     declarations_by_id       |-> {},
     all_problems             |-> <<>>,
     exposed_symbols          |-> EmptyMap,
     vars_by_symbol           |-> {},
     solver_vars              |-> EmptyMap]

Init ==
    /\ status = "Start"
    /\ debug \in BOOLEAN
    /\ loaded_modules \in SUBSET Builtins
    /\ orch = InitOrch
    /\ task = [m \in Modules |-> "idle"]
    /\ msgs = {}
    /\ deps_by_name = EmptyMap
    /\ processed = [m \in Modules |-> <<>>]
    /\ reads = [m \in Modules |-> 0]
    /\ released = {}
    /\ pruned = {}
    /\ assert_failures = {}
    /\ solved_log = <<>>
    /\ result = <<>>
    /\ send_failed = {}
    /\ p_in = [kind |-> "none"]
    /\ p_out = <<>>

----------------------------------------------------------------------------
\* The body of one iteration of the receive loop is a sequence of statements
\* over the local tables.  A handler threads a record r through them:
\* r.o are the tables, r.task / r.msgs / r.reads the tasks it has spawned,
\* r.asserts the debug assertions that failed, r.status turns from "Running"
\* to a panic or to "Ok", after which the remaining statements do not run.

Begin(msg) ==
    [o |-> orch, task |-> task, msgs |-> msgs \ {msg}, reads |-> reads,
     released |-> released, pruned |-> pruned,
     asserts |-> assert_failures, status |-> "Running",
     solved_log |-> solved_log, result |-> result]

Panic(r, label) == [r EXCEPT !.status = label]

\* debug_assert!(cond): compiled out without debug assertions.
debug_assert(r, cond, label) ==
    IF r.status # "Running" \/ cond THEN r
    ELSE [r EXCEPT !.asserts = @ \cup {label},
                   !.status = IF debug THEN "Panic_debug_assert" ELSE @]

\* Vec push on the entry of a listeners map, created when absent.
PushListener(map, k, v) ==
    Put(map, k, Append(IF k \in DOMAIN map THEN map[k] ELSE <<>>, v))

RECURSIVE RegisterListeners(_, _, _)
RegisterListeners(map, keys, v) ==
    IF keys = {} THEN map
    ELSE LET k == CHOOSE x \in keys : TRUE
         IN  RegisterListeners(PushListener(map, k, v), keys \ {k}, v)

\* solve_needed left empty.
solve_needed_none(deps, exposed_types) == {}

\* The imports whose solve the module has to wait for.
solve_needed(deps, exposed_types) == deps \ exposed_types

\* header.exposes: every header exposes one identifier.
exposes(m) == <<"main">>

\* The exposed_symbols the Header arm builds from the header of module m:
\* Symbol::new(module_id, ident_id) for every exposed identifier, the ident
\* ids counted from the start of a fresh IdentIds.
ExposedSymbols(m) == {<<m, ident_id>> : ident_id \in 1 .. Len(exposes(m))}

\* spawn_parse_and_constrain: look up the idents of every dependency, record
\* the solves the module will need, start the worker with the header and
\* the exposed_symbols it was given.
spawn_parse_and_constrain(r, m, deps, exposed_symbols) ==
    IF r.status # "Running" THEN r
    ELSE IF ~(deps \subseteq r.o.exposed_idents_by_module)
         THEN Panic(r, "Panic_dep_idents")
    ELSE [r EXCEPT !.o.waiting_for_solve =
                       Put(@, m, solve_needed(deps, r.o.exposed_types)),
                   !.o.exposed_symbols = Put(@, m, exposed_symbols),
                   !.task[m] = "parse"]

\* solve_module: the part that runs in the receive loop looks up the exposed
\* types of the modules whose symbols the module references, walks the
\* declarations and records them.  The references are symbols of imports;
\* `refs` tells whether they include a symbol of every import.  The solver
\* task it spawns shares nothing and ends by sending Solved, so the spawned
\* task and its message are one.
solve_module(r, m, cycle, refs) ==
    IF r.status # "Running" THEN r
    ELSE IF refs /\ ~(deps_by_name[m] \subseteq r.o.exposed_types)
         THEN Panic(r, "Panic_exposed_types")
    ELSE IF cycle THEN Panic(r, "Panic_invalid_cycle")
    ELSE [r EXCEPT !.o.declarations_by_id = @ \cup {m},
                   !.o.solver_vars = Put(@, m, r.o.vars_by_symbol),
                   !.msgs = @ \cup {Solved(m)}]

\* Header arm: notify the listeners waiting for this header.
RECURSIVE HeaderListeners(_, _, _, _)
HeaderListeners(r, m, listeners, exposed_symbols) ==
    IF r.status # "Running" \/ listeners = <<>> THEN r
    ELSE LET l == Head(listeners)
             r1 == IF l \notin DOMAIN r.o.waiting_for_headers
                   THEN Panic(r, "Panic_waiting_for_headers")
                   ELSE LET w  == r.o.waiting_for_headers[l] \ {m}
                            r2 == [r EXCEPT !.o.waiting_for_headers[l] = w]
                        IN  IF w # {} THEN r2
                            ELSE IF l \notin DOMAIN r2.o.unparsed_modules
                                 THEN Panic(r2, "Panic_unparsed_modules")
                            ELSE spawn_parse_and_constrain(
                                     [r2 EXCEPT !.o.unparsed_modules = Remove(@, l)],
                                     l, r2.o.unparsed_modules[l],
                                     exposed_symbols)
         IN  HeaderListeners(r1, m, Tail(listeners), exposed_symbols)

\* The listeners read with get, the entry left in header_listeners.
NotifyHeaderListeners_get(r, m, exposed_symbols) ==
    IF r.status # "Running" \/ m \notin DOMAIN r.o.header_listeners THEN r
    ELSE HeaderListeners(r, m, r.o.header_listeners[m], exposed_symbols)

\* if let Some(listeners) = header_listeners.remove(&module_id)
NotifyHeaderListeners(r, m, exposed_symbols) ==
    IF r.status # "Running" \/ m \notin DOMAIN r.o.header_listeners THEN r
    ELSE HeaderListeners([r EXCEPT !.o.header_listeners = Remove(@, m)],
                         m, r.o.header_listeners[m], exposed_symbols)

\* Saturation point of the reads counter.
ReadsCap == 2

\* The loading_started test left out.
not_started_all(deps, loading_started) == deps

\* The imports no load_module was spawned for.
not_started(deps, loading_started) == deps \ loading_started

\* Header arm: start loading the imports that were not started before.
StartLoading(r, deps) ==
    IF r.status # "Running" THEN r
    ELSE LET new == not_started(deps, r.o.loading_started)
         IN  [r EXCEPT !.o.loading_started = @ \cup new,
                       !.task = [x \in Modules |->
                                    IF x \in new THEN "reading" ELSE @[x]],
                       !.reads = [x \in Modules |->
                                    IF x \in new /\ @[x] < ReadsCap
                                    THEN @[x] + 1 ELSE @[x]]]

\* Header arm: the module has to wait for headers.
ParkHeader(r, m, deps, needed) ==
    LET r1 == debug_assert(r, m \notin DOMAIN r.o.unparsed_modules,
                           "unparsed_modules")
        r2 == IF r1.status # "Running" THEN r1
              ELSE [r1 EXCEPT
                      !.o.unparsed_modules = Put(@, m, deps),
                      !.o.header_listeners =
                          RegisterListeners(@, needed, m)]
        r3 == debug_assert(r2, m \notin DOMAIN r2.o.waiting_for_headers,
                           "waiting_for_headers")
    IN  IF r3.status # "Running" THEN r3
        ELSE [r3 EXCEPT !.o.waiting_for_headers = Put(@, m, needed)]

\* headers_needed left empty.
headers_needed_none(deps, exposed_idents) == {}

\* The imports whose header has not arrived yet.
headers_needed(deps, exposed_idents) == {d \in deps : d \notin exposed_idents}

\* The insert left out.
PublishIdents_skip(r, m) == r

\* exposed_idents_by_module.insert(module_id, ..)
PublishIdents(r, m) == [r EXCEPT !.o.exposed_idents_by_module = @ \cup {m}]

HeaderArm(r, m) ==
    LET deps == deps_by_name[m]
        needed == headers_needed(deps, r.o.exposed_idents_by_module)
        r1 == debug_assert(r, m \notin r.o.exposed_idents_by_module,
                           "exposed_idents_by_module")
        r2 == IF r1.status # "Running" THEN r1 ELSE PublishIdents(r1, m)
        exposed_symbols == ExposedSymbols(m)
        r3 == NotifyHeaderListeners(r2, m, exposed_symbols)
        r4 == StartLoading(r3, deps)
    IN  IF r4.status # "Running" THEN r4
        ELSE IF needed = {}
             THEN spawn_parse_and_constrain(r4, m, deps, exposed_symbols)
        ELSE ParkHeader(r4, m, deps, needed)

\* retain with the test the wrong way round.
retain_unsolved_inverted(waiting_for, exposed_types) ==
    waiting_for \cap exposed_types

\* retain left out: the wait set stays as it was at dispatch.
retain_all(waiting_for, exposed_types) == waiting_for

\* waiting_for.retain(|id| !exposed_types.contains_key(id))
retain_unsolved(waiting_for, exposed_types) == waiting_for \ exposed_types

\* Constrained arm.
ConstrainedArm(r, m, cycle, refs) ==
    IF m \notin DOMAIN r.o.waiting_for_solve
    THEN Panic(r, "Panic_waiting_for_solve")
    ELSE
    LET r1 == debug_assert(r, m \notin r.o.constrained_ident_ids,
                           "constrained_ident_ids")
        waiting_for == retain_unsolved(r.o.waiting_for_solve[m],
                                       r.o.exposed_types)
        r2 == IF r1.status # "Running" THEN r1
              ELSE [r1 EXCEPT !.o.constrained_ident_ids = @ \cup {m},
                              !.o.waiting_for_solve[m] = waiting_for,
                              !.pruned = @ \cup
                                  {<<m, d>> : d \in
                                      r.o.waiting_for_solve[m] \ waiting_for}]
    IN  IF r2.status # "Running" THEN r2
        ELSE IF waiting_for = {} THEN solve_module(r2, m, cycle, refs)
        ELSE LET r3 == debug_assert(r2, m \notin DOMAIN r2.o.unsolved_modules,
                                    "unsolved_modules")
             IN  IF r3.status # "Running" THEN r3
                 ELSE [r3 EXCEPT
                         !.o.unsolved_modules = Put(@, m, cycle),
                         !.o.solve_listeners =
                             RegisterListeners(@, waiting_for, m)]

\* Solved arm, dependency case: notify the listeners waiting for this solve.
RECURSIVE SolveListeners(_, _, _, _)
SolveListeners(r, m, listeners, refs) ==
    IF r.status # "Running" \/ listeners = <<>> THEN r
    ELSE LET l == Head(listeners)
             r1 == IF l \notin DOMAIN r.o.waiting_for_solve
                   THEN Panic(r, "Panic_waiting_for_solve")
                   ELSE LET w  == r.o.waiting_for_solve[l] \ {m}
                            r2 == [r EXCEPT !.o.waiting_for_solve[l] = w]
                        IN  IF w # {} THEN r2
                            ELSE IF l \notin DOMAIN r2.o.unsolved_modules
                                 THEN Panic(r2, "Panic_unsolved_modules")
                            ELSE solve_module(
                                     [r2 EXCEPT !.o.unsolved_modules = Remove(@, l),
                                                !.released = @ \cup {l}],
                                     l, r2.o.unsolved_modules[l], refs)
         IN  SolveListeners(r1, m, Tail(listeners), refs)

NotifySolveListeners(r, m, refs) ==
    IF r.status # "Running" \/ m \notin DOMAIN r.o.solve_listeners THEN r
    ELSE SolveListeners([r EXCEPT !.o.solve_listeners = Remove(@, m)],
                        m, r.o.solve_listeners[m], refs)

\* The insert left out.
PublishTypes_skip(r, m) == r

\* exposed_types.insert(module_id, ..)
PublishTypes(r, m) == [r EXCEPT !.o.exposed_types = @ \cup {m}]

\* The union left out.
MergeVars_skip(r, m) == r

\* vars_by_symbol = vars_by_symbol.union(new_vars_by_symbol): the bindings
\* are kept by the module whose solve produced them.
MergeVars(r, m) == [r EXCEPT !.o.vars_by_symbol = @ \cup {m}]

\* Arc::try_unwrap(arc_modules) succeeds when no task holds a clone.
ArcUnique(r) ==
    \A m \in Modules : r.task[m] \notin {"reading", "parse", "canon", "sent"}

\* The problem lists a solver run can report for module m: none, or one
\* problem, named after the module it was found in.
ProblemChoices(m) == {<<>>, <<m>>}

\* all_problems.extend(problems)
ExtendProblems(r, problems) ==
    [r EXCEPT !.o.all_problems = @ \o problems,
              !.solved_log = Append(@, problems)]

\* return Ok(LoadedModule { module_id: root_id, problems: all_problems, .. })
ReturnOk(r) ==
    [r EXCEPT !.status = "Ok",
              !.result = <<[module_id |-> root_id,
                            problems  |-> r.o.all_problems]>>]

\* Solved arm.
SolvedArm(r, m, refs, problems) ==
    LET r0 == ExtendProblems(r, problems)
    IN  IF m = root_id
        THEN IF ~ArcUnique(r0) THEN Panic(r0, "Panic_arc_module_ids")
             ELSE IF m \notin r0.o.declarations_by_id
                  THEN Panic(r0, "Panic_declarations_by_id")
             ELSE ReturnOk([r0 EXCEPT !.o.declarations_by_id = @ \ {m}])
        ELSE LET rv == MergeVars(r0, m)
                 r1 == debug_assert(rv, m \notin rv.o.exposed_types,
                                    "exposed_types")
                 r2 == IF r1.status # "Running" THEN r1
                       ELSE PublishTypes(r1, m)
             IN  NotifySolveListeners(r2, m, refs)

\* One iteration of the receive loop has run and left r.
Commit(r, msg) ==
    /\ orch' = r.o
    /\ task' = r.task
    /\ msgs' = r.msgs
    /\ reads' = r.reads
    /\ released' = r.released
    /\ pruned' = r.pruned
    /\ assert_failures' = r.asserts
    /\ status' = r.status
    /\ solved_log' = r.solved_log
    /\ result' = r.result
    /\ processed' = [processed EXCEPT ![msg.module_id] = Append(@, msg.kind)]
    /\ UNCHANGED <<debug, loaded_modules, deps_by_name,
                   send_failed, p_in, p_out>>

----------------------------------------------------------------------------
\* Actions.  The outcomes of reading, parsing and canonicalizing a file are
\* inputs; each action is given the set it draws them from.

FileOutcomes == {"FileProblem", "ParsingFailed", "App", "Interface"}

DefsOutcomes == {"ok", "err"}

CanonOutcomes == {"ok", "invalid_cycle", "err"}

\* load, up to the receive loop: the root file is read in the calling task.
LoadRoot(files, acyclic) ==
    /\ status = "Start"
    /\ \E out \in files :
        \/ /\ out \in {"FileProblem", "ParsingFailed"}
           /\ status' = out
           /\ UNCHANGED <<orch, task, msgs, deps_by_name>>
        \/ /\ out = "App"
           /\ status' = "Panic_app"
           /\ UNCHANGED <<orch, task, msgs, deps_by_name>>
        \/ /\ out = "Interface"
           /\ \E imports \in Imports(root_id, Builtins \cup {root_id}, acyclic) :
                deps_by_name' = Put(deps_by_name, root_id, imports)
           /\ msgs' = msgs \cup {Header(root_id)}
           /\ task' = [task EXCEPT ![root_id] = "loaded"]
           /\ orch' = [orch EXCEPT !.loading_started = @ \cup {root_id}]
           /\ status' = "Running"
    /\ UNCHANGED <<debug, loaded_modules, processed, reads, released, pruned,
                   assert_failures, solved_log, result, send_failed, p_in,
                   p_out>>

\* load_module in a blocking task: read the file, parse the header, intern
\* the names under the lock, spawn the send of Header.
LoadModule(m, files, acyclic) ==
    /\ task[m] = "reading"
    /\ \E out \in files :
        \/ /\ out \in {"FileProblem", "ParsingFailed"}
           /\ task' = [task EXCEPT ![m] = out]
           /\ UNCHANGED <<msgs, deps_by_name>>
        \/ /\ out = "App"
           /\ task' = [task EXCEPT ![m] = "panic_app"]
           /\ UNCHANGED <<msgs, deps_by_name>>
        \/ /\ out = "Interface"
           /\ ~LockHeld
           /\ IF Poisoned
              THEN /\ task' = [task EXCEPT ![m] = "panic_lock"]
                   /\ UNCHANGED <<msgs, deps_by_name>>
              ELSE /\ \E imports \in Imports(m, Interned, acyclic) :
                        deps_by_name' = Put(deps_by_name, m, imports)
                   /\ msgs' = msgs \cup {Header(m)}
                   /\ task' = [task EXCEPT ![m] = "loaded"]

    /\ UNCHANGED <<status, debug, loaded_modules, orch, processed, reads,
                   released, pruned, assert_failures, solved_log, result,
                   send_failed, p_in, p_out>>

\* parse_and_constrain, up to the lock: parse the defs, take the lock.
ParseDefs(m, defs) ==
    /\ task[m] = "parse"
    /\ \E out \in defs :
        \/ /\ out = "err"
           /\ task' = [task EXCEPT ![m] = "panic_defs"]
        \/ /\ out = "ok"
           /\ ~LockHeld
           /\ task' = [task EXCEPT ![m] = IF Poisoned THEN "panic_lock"
                                          ELSE "canon"]
    /\ UNCHANGED <<status, debug, loaded_modules, orch, msgs, deps_by_name,
                   processed, reads, released, pruned,
                   assert_failures,
                   solved_log, result, send_failed, p_in, p_out>>

\* parse_and_constrain, under the lock: canonicalize, constrain, spawn the
\* send of Constrained.
Canonicalize(m, canon) ==
    /\ task[m] = "canon"
    /\ \E out \in canon :
        \/ /\ out = "err"
           /\ task' = [task EXCEPT ![m] = "panic_canon"]
           /\ UNCHANGED msgs
        \/ /\ out \in {"ok", "invalid_cycle"}
           /\ task' = [task EXCEPT ![m] = "sent"]
           /\ msgs' = msgs \cup {Constrained(m, out = "invalid_cycle")}
    /\ UNCHANGED <<status, debug, loaded_modules, orch, deps_by_name,
                   processed, reads, released, pruned,
                   assert_failures,
                   solved_log, result, send_failed, p_in, p_out>>

\* parse_and_constrain returns: the guard and the Arc are dropped.
WorkerReturn(m) ==
    /\ task[m] = "sent"
    /\ task' = [task EXCEPT ![m] = "returned"]
    /\ UNCHANGED <<status, debug, loaded_modules, orch, msgs, deps_by_name,
                   processed, reads, released, pruned,
                   assert_failures,
                   solved_log, result, send_failed, p_in, p_out>>

RecvHeader(m) ==
    /\ status = "Running"
    /\ Header(m) \in msgs
    /\ Commit(HeaderArm(Begin(Header(m)), m), Header(m))

RecvConstrained(m) ==
    /\ status = "Running"
    /\ \E msg \in msgs, refs \in BOOLEAN :
        /\ msg.kind = "Constrained"
        /\ msg.module_id = m
        /\ Commit(ConstrainedArm(Begin(msg), m, msg.cycle, refs), msg)

RecvSolved(m) ==
    /\ status = "Running"
    /\ Solved(m) \in msgs
    /\ \E refs \in BOOLEAN, problems \in ProblemChoices(m) :
        Commit(SolvedArm(Begin(Solved(m)), m, refs, problems), Solved(m))

\* The receiver is closed (the root's Solved message was handled) or dropped
\* (load has returned or panicked).  A message that already sat in the
\* channel's buffer is dropped with the receiver; a send task that runs only
\* now gets Err from tx.send and panics in its unwrap_or_else.
SendAfterClose(m) ==
    /\ status \notin {"Start", "Running"}
    /\ \E msg \in msgs :
        /\ msg.module_id = m
        /\ msgs' = msgs \ {msg}
        /\ \/ send_failed' = send_failed \cup {msg}
           \/ UNCHANGED send_failed
    /\ UNCHANGED <<status, debug, loaded_modules, orch, task, deps_by_name,
                   processed, reads, released, pruned,
                   assert_failures, solved_log,
                   result, p_in, p_out>>

Next ==
    \/ LoadRoot(FileOutcomes, FALSE)
    \/ \E m \in Modules : LoadModule(m, FileOutcomes, FALSE)
    \/ \E m \in Modules : ParseDefs(m, DefsOutcomes)
    \/ \E m \in Modules : Canonicalize(m, CanonOutcomes)
    \/ \E m \in Modules : WorkerReturn(m)
    \/ \E m \in Modules : RecvHeader(m)
    \/ \E m \in Modules : RecvConstrained(m)
    \/ \E m \in Modules : RecvSolved(m)
    \/ \E m \in Modules : SendAfterClose(m)

Spec == Init /\ [][Next]_vars

TypeOK ==
    /\ status \in {"Start", "Running", "Ok", "FileProblem", "ParsingFailed",
                   "Panic_app", "Panic_debug_assert", "Panic_dep_idents",
                   "Panic_exposed_types", "Panic_invalid_cycle",
                   "Panic_waiting_for_headers", "Panic_unparsed_modules",
                   "Panic_waiting_for_solve", "Panic_unsolved_modules",
                   "Panic_arc_module_ids", "Panic_declarations_by_id"}
    /\ \A m \in Modules : task[m] \in TaskStates
    /\ \A m \in Modules : reads[m] \in 0 .. ReadsCap

----------------------------------------------------------------------------
\* The session of an acyclic import graph whose files all read, parse and
\* canonicalize; every task and the receive loop are scheduled fairly.

NextLive ==
    \/ LoadRoot({"Interface"}, TRUE)
    \/ \E m \in Modules : LoadModule(m, {"Interface"}, TRUE)
    \/ \E m \in Modules : ParseDefs(m, {"ok"})
    \/ \E m \in Modules : Canonicalize(m, {"ok"})
    \/ \E m \in Modules : WorkerReturn(m)
    \/ \E m \in Modules : RecvHeader(m)
    \/ \E m \in Modules : RecvConstrained(m)
    \/ \E m \in Modules : RecvSolved(m)
    \/ \E m \in Modules : SendAfterClose(m)

SpecLive ==
    /\ Init
    /\ [][NextLive]_vars
    /\ WF_vars(LoadRoot({"Interface"}, TRUE))
    /\ \A m \in Modules :
        /\ WF_vars(LoadModule(m, {"Interface"}, TRUE))
        /\ WF_vars(ParseDefs(m, {"ok"}))
        /\ WF_vars(Canonicalize(m, {"ok"}))
        /\ WF_vars(WorkerReturn(m))
        /\ WF_vars(RecvHeader(m))
        /\ WF_vars(RecvConstrained(m))
        /\ WF_vars(RecvSolved(m))
        /\ WF_vars(SendAfterClose(m))

----------------------------------------------------------------------------
\* Vocabulary of the properties.

Handled(m, kind) == \E i \in DOMAIN processed[m] : processed[m][i] = kind

\* spawn_parse_and_constrain has run for m.
Dispatched(m) == m \in DOMAIN orch.waiting_for_solve

\* solve_module has run for m.
SolveInvoked(m) == Solved(m) \in msgs \/ Handled(m, "Solved")

IsPrefix(s, t) == Len(s) <= Len(t) /\ \A i \in 1 .. Len(s) : s[i] = t[i]

Returned == status \in {"Ok", "FileProblem", "ParsingFailed"}

\* No message is in flight and no task is running.
Quiescent == msgs = {} /\ ArcHolders = {}

ImportsOf(x) == IF x \in DOMAIN deps_by_name THEN deps_by_name[x] ELSE {}

\* Modules reachable from `from` by imports, passing through `allowed` only.
RECURSIVE ReachIn(_, _, _)
ReachIn(from, allowed, seen) ==
    LET next == ((UNION {ImportsOf(x) : x \in from}) \cap allowed) \ seen
    IN  IF next = {} THEN seen ELSE ReachIn(next, allowed, seen \cup next)

\* The import graph reachable from the root has a cycle among non-root modules.
NonRootCycle ==
    \E m \in ReachIn({root_id}, Modules, {}) \ {root_id} :
        m \in ReachIn({m}, Modules \ {root_id}, {})

\* The same, for modules that were not in the exposed_types given to load and
\* are reached from the root through such modules.
NotPreloaded == Modules \ (loaded_modules \cup {root_id})

UnloadedCycle ==
    \E m \in ReachIn({root_id}, NotPreloaded, {}) :
        m \in ReachIn({m}, NotPreloaded, {})

----------------------------------------------------------------------------
\* C1: a module is handed to the parse+canonicalize+constrain worker only
\* when exposed_idents_by_module has an entry for each of its imports, so the
\* lookup of the imports' idents at dispatch never fails; entries are never
\* removed, so they are still there in every later state.
C1_DispatchAfterHeaders ==
    /\ status # "Panic_dep_idents"
    /\ \A m \in Modules :
        Dispatched(m) => deps_by_name[m] \subseteq orch.exposed_idents_by_module

\* One module with imports was dispatched from its own Header message and
\* another was parked first and dispatched as a header listener.
C1_Witness ==
    \E m, l \in Modules :
        /\ Dispatched(m) /\ deps_by_name[m] # {}
        /\ m \notin DOMAIN orch.waiting_for_headers
        /\ Dispatched(l) /\ l \in DOMAIN orch.waiting_for_headers

\* C2: solve_module runs for a module only when exposed_types has an entry
\* for each of its imports, so the lookup of a referenced module never fails.
C2_SolveAfterDeps ==
    /\ status # "Panic_exposed_types"
    /\ \A m \in Modules :
        SolveInvoked(m) => deps_by_name[m] \subseteq orch.exposed_types

\* One module with imports was solved on its Constrained message and another
\* was released from unsolved_modules by a Solved message.
C2_Witness ==
    \E m, l \in Modules :
        /\ SolveInvoked(m) /\ deps_by_name[m] # {} /\ m \notin released
        /\ SolveInvoked(l) /\ l \in released

\* C3: the messages of a module are handled at most once each, in the order
\* Header, Constrained, Solved, and no debug assertion of the loop is false
\* when it is reached.
C3_Claim ==
    /\ \A m \in Modules :
        IsPrefix(processed[m], <<"Header", "Constrained", "Solved">>)
    /\ assert_failures = {}

\* C4: with an acyclic import graph, files that all load and fair scheduling,
\* the session eventually returns Ok.
C4_Claim == <>(status = "Ok")

\* C5 as stated: with a cycle among non-root modules reachable from the
\* root, the session never returns Ok.
C5_Claim == NonRootCycle => status # "Ok"

\* C5 amended: with a cycle among non-root modules that were not in the
\* exposed_types given to load, reached from the root through such modules,
\* the session never returns Ok.
C5_Amended == UnloadedCycle => status # "Ok"

\* The modules of such a cycle are parked for good: the loop still waits,
\* nothing is in flight and no task runs.
C5_Witness ==
    /\ UnloadedCycle
    /\ status = "Running"
    /\ Quiescent
    /\ orch.unsolved_modules # EmptyMap

\* C6: load_module is started at most once per module id, never for the
\* root, and only for ids already in loading_started.
C6_ReadOnce ==
    \A m \in Modules :
        /\ reads[m] <= 1
        /\ reads[root_id] = 0
        /\ reads[m] > 0 => m \in orch.loading_started

\* A module whose read was started is imported by two modules whose Header
\* messages were both handled, and another module imports the root.
C6_Witness ==
    \E m \in Modules, a, b \in Modules :
        /\ a # b /\ reads[m] = 1
        /\ Handled(a, "Header") /\ m \in deps_by_name[a]
        /\ Handled(b, "Header") /\ m \in deps_by_name[b]
        /\ root_id \in deps_by_name[b]

\* C7 as stated: exposed_idents_by_module has an entry for M exactly when
\* M's Header message has been handled.
C7_Claim ==
    \A m \in Modules :
        m \in orch.exposed_idents_by_module <=> Handled(m, "Header")

\* C7 amended: exposed_idents_by_module has an entry for M exactly when M is
\* a builtin module seeded by exposed_builtins() or M's Header message has
\* been handled.
C7_Amended ==
    \A m \in Modules :
        m \in orch.exposed_idents_by_module
            <=> (m \in Builtins \/ Handled(m, "Header"))

\* The Header of one module was handled and has put its entry, that of
\* another is still in flight, and the builtin has an entry without a Header
\* message.
C7_Witness ==
    /\ \E m \in Modules \ Builtins :
        Handled(m, "Header") /\ m \in orch.exposed_idents_by_module
    /\ \E m \in Modules \ Builtins :
        ~Handled(m, "Header") /\ Header(m) \in msgs
    /\ \E b \in Builtins :
        ~Handled(b, "Header") /\ b \in orch.exposed_idents_by_module

\* C8 as stated: exposed_types has an entry for M exactly when M's Solved
\* message has been handled, for the root as for any other module.
C8_Claim ==
    \A m \in Modules : m \in orch.exposed_types <=> Handled(m, "Solved")

\* C8 amended: exposed_types has an entry for M exactly when M was in the
\* exposed_types given to load, or M is not the root and M's Solved message
\* has been handled.
C8_Amended ==
    \A m \in Modules :
        m \in orch.exposed_types
            <=> (m \in loaded_modules \/ (m # root_id /\ Handled(m, "Solved")))

\* The session has returned, after the Solved messages of the root and of an
\* import that was not preloaded.
C8_Witness ==
    /\ status = "Ok"
    /\ Handled(root_id, "Solved")
    /\ \E m \in Modules \ loaded_modules : Handled(m, "Solved") /\ m # root_id

\* C9: when the read or the header parse of some module's file has failed
\* and load has returned, or nothing is left that could send it a message,
\* load has returned that FileProblem or ParsingFailed.
C9_Claim ==
    (Returned \/ Quiescent) =>
        \A m \in Modules :
            task[m] \in {"FileProblem", "ParsingFailed"} => status = task[m]

\* C10: once canonicalization of a module has failed, load does not stay in
\* the receive loop when nothing is left that could send it a message.
C10_Claim ==
    ((\E m \in Modules : task[m] = "panic_canon") /\ Quiescent)
        => status # "Running"

----------------------------------------------------------------------------
\* The concatenation of a sequence of problem lists.
RECURSIVE Concat(_)
Concat(seqs) == IF seqs = <<>> THEN <<>> ELSE Head(seqs) \o Concat(Tail(seqs))

\* What load returns when it returns Ok: the root id and the problems of the
\* Solved messages handled so far, in the order they were handled.
ReturnedProblems ==
    status = "Ok" =>
        /\ Handled(root_id, "Solved")
        /\ result = <<[module_id |-> root_id, problems |-> Concat(solved_log)]>>

\* C11: once the root's Solved message has been handled, load has returned
\* Ok with the root id and the concatenation of the problem lists of all the
\* Solved messages handled, whatever problems they carried, and no further
\* message is handled.
C11_Claim ==
    /\ [](Handled(root_id, "Solved") =>
            /\ status = "Ok"
            /\ result = <<[module_id |-> root_id,
                           problems  |-> Concat(solved_log)]>>)
    /\ [][Handled(root_id, "Solved") => processed' = processed]_vars

\* C12: no send task of a worker ends in an error because the channel was
\* closed when it sent its Header, Constrained or Solved message.
C12_Claim == send_failed = {}

\* C22: whenever the root's Solved message is handled no task holds a clone
\* of arc_modules any more, so Arc::try_unwrap never fails and `load` never
\* panics with "There were still outstanding Arc references to module_ids".
C22_Claim == status # "Panic_arc_module_ids"

\* C23: every module handed to the parse+constrain worker is handed the
\* exposed symbols built from its own header and its own module id, whether
\* it is dispatched on its own Header message or later, from
\* unparsed_modules, on the Header message of a module it waited for.
C23_Claim ==
    \A m \in DOMAIN orch.exposed_symbols :
        orch.exposed_symbols[m] = ExposedSymbols(m)

\* Module l is registered as a listener for the solve of module d.
ListensForSolve(l, d) ==
    /\ d \in DOMAIN orch.solve_listeners
    /\ \E i \in DOMAIN orch.solve_listeners[d] : orch.solve_listeners[d][i] = l

\* C25: between two messages of a running load, a module whose
\* Constrained message was processed waits for no dependency that is solved:
\* a dependency solved between the module's dispatch to parse+constrain and
\* its Constrained message is pruned from the wait set.  With an empty wait
\* set the solver was invoked for the module; with a non-empty one the module
\* is parked and listens for every solve it waits for, so no wake-up is lost.
C25_NoLostWakeup ==
    status = "Running" =>
        \A m \in Modules :
            Handled(m, "Constrained") =>
                LET waiting_for == orch.waiting_for_solve[m]
                IN  /\ waiting_for \cap orch.exposed_types = {}
                    /\ \A d \in Modules : <<m, d>> \in pruned => d \notin waiting_for
                    /\ waiting_for = {} => SolveInvoked(m)
                    /\ waiting_for # {} =>
                           /\ m \in DOMAIN orch.unsolved_modules
                           /\ \A d \in waiting_for : ListensForSolve(m, d)

\* A dependency d of module m was solved while m was being parsed and
\* constrained; the Constrained arm pruned it and invoked the solver for m.
C25_Witness ==
    /\ status = "Running"
    /\ \E m, d \in Modules :
           /\ <<m, d>> \in pruned
           /\ Handled(d, "Solved")
           /\ SolveInvoked(m)
           /\ m \notin released

\* Module l is registered as a listener for the header of module d.
ListensForHeader(l, d) ==
    /\ d \in DOMAIN orch.header_listeners
    /\ \E i \in DOMAIN orch.header_listeners[d] : orch.header_listeners[d][i] = l

\* Module l is recorded as waiting for the header of module d.
WaitsForHeader(l, d) ==
    /\ l \in DOMAIN orch.waiting_for_headers
    /\ d \in orch.waiting_for_headers[l]

\* C26: between two messages of a running load a module is in
\* unparsed_modules exactly when it has a non-empty entry in
\* waiting_for_headers, and l is a listener for the header of d exactly when d
\* is in waiting_for_headers[l]; and the Header arm never fails to find a
\* listener in waiting_for_headers or in unparsed_modules.
C26_Claim ==
    /\ status \notin {"Panic_waiting_for_headers", "Panic_unparsed_modules"}
    /\ status = "Running" =>
           /\ \A m \in Modules :
                  m \in DOMAIN orch.unparsed_modules
                      <=> \E d \in Modules : WaitsForHeader(m, d)
           /\ \A l, d \in Modules :
                  ListensForHeader(l, d) <=> WaitsForHeader(l, d)

\* A module that was parked for a header has been looked up as a listener,
\* taken out of unparsed_modules and dispatched, while another module is
\* still parked.
C26_Witness ==
    /\ status = "Running"
    /\ \E l \in DOMAIN orch.waiting_for_headers :
           /\ orch.waiting_for_headers[l] = {}
           /\ l \notin DOMAIN orch.unparsed_modules
           /\ Dispatched(l)
    /\ \E m, d \in Modules :
           m \in DOMAIN orch.unparsed_modules /\ ListensForHeader(m, d)

\* The worker of module m holds the guard of the module_ids mutex: it took it
\* after parsing the defs and keeps it to the end of parse_and_constrain.
HoldsLock(m) == task[m] \in {"canon", "sent"}

\* C27: no worker holds the module_ids mutex while it parses, canonicalizes
\* or generates constraints, so a worker that is canonicalizing does not keep
\* another worker from canonicalizing.
C27_Claim ==
    \A m \in Modules :
        task[m] \in {"parse", "canon"} => ~HoldsLock(m)

\* At most one worker is past the lock() of parse_and_constrain at a time.
C27_Serialized ==
    \A m, n \in Modules : HoldsLock(m) /\ HoldsLock(n) => m = n

\* The non-root modules whose Solved message the receive loop has processed.
SolvedDeps == {d \in Modules \ {root_id} : Handled(d, "Solved")}

\* solve_module is called for m in this step of the receive loop.
SolveDispatch(m) ==
    m \notin DOMAIN orch.solver_vars /\ m \in DOMAIN orch'.solver_vars

\* The vars_by_symbol passed to the solver of m in this step holds the
\* bindings of every non-root module whose Solved message was processed up to
\* and including this step: a Solved message's bindings are merged before a
\* listener it releases is dispatched.
C28_SnapshotComplete ==
    [][\A m \in Modules :
          SolveDispatch(m) => SolvedDeps' \subseteq orch'.solver_vars[m]]_vars

\* The vars_by_symbol passed to the solver of m holds the bindings of every
\* module m imports.
C28_ImportsCovered ==
    \A m \in DOMAIN orch.solver_vars :
        deps_by_name[m] \subseteq orch.solver_vars[m]

\* C28: the vars_by_symbol snapshot passed to the solver of a module holds
\* the bindings of every non-root module whose Solved message was processed
\* before the dispatch, the message that releases the module included, and
\* hence the bindings of every module it imports.
C28_Claim == C28_SnapshotComplete /\ []C28_ImportsCovered

\* The imports of m whose types were not handed to `load` as already loaded.
ImportsToSolve(m) == deps_by_name[m] \ loaded_modules

\* C28, amended: the snapshot holds the bindings of every non-root module
\* whose Solved message was processed before the dispatch, the releasing
\* message included, and hence of every import that was not passed to `load`
\* as already loaded; an import found in the exposed_types argument is not
\* waited for and its bindings may be missing.
C28_Amended ==
    /\ C28_SnapshotComplete
    /\ [](\A m \in DOMAIN orch.solver_vars :
              ImportsToSolve(m) \subseteq orch.solver_vars[m])

\* A module released by the Solved message of an import was given that
\* import's bindings, and a module whose import was passed in as already
\* loaded was dispatched without them.
C28_Witness ==
    /\ \E m \in released :
           /\ m \in DOMAIN orch.solver_vars
           /\ ImportsToSolve(m) # {}
           /\ ImportsToSolve(m) \subseteq orch.solver_vars[m]
    /\ \E m \in DOMAIN orch.solver_vars :
           ~(deps_by_name[m] \subseteq orch.solver_vars[m])

----------------------------------------------------------------------------
(***************************************************************************)
(* The expression parser of src/compiler/parse/src/expr.rs.                *)
(*                                                                         *)
(* A source text is a sequence of bytes and a parser state is the position *)
(* of the next byte.  The texts are one line long, so the column is the    *)
(* position and min_indent, which only matters after a newline, is left    *)
(* out of the parsers' parameters.  Regions are left out of the values.    *)
(* The combinators (and!, one_of!, optional, backtrackable, ...), the      *)
(* blank-space parsers, ident() and number_literal() live in files that    *)
(* are not part of the sources; they follow the specification's text.      *)
(***************************************************************************)

\* The bytes of the source texts.
Bytes == {"x", "y", "1", "-", " ", "!", "="}

\* Longest source text.
MaxLen == 5

Letters == {"x", "y"}

Digits == {"1"}

\* The variables of the load session, which the parser leaves alone.
load_vars ==
    <<status, debug, loaded_modules, orch, task, msgs, deps_by_name,
      processed, reads, released, pruned,
                   assert_failures, solved_log, result,
      send_failed>>

\* Ok((progress, value, state)) and Err((progress, fail, state)); `made` is
\* MadeProgress.
ParseOk(made, val, pos) ==
    [ok |-> TRUE, made |-> made, val |-> val, pos |-> pos, err |-> ""]

ParseErr(made, err, pos) ==
    [ok |-> FALSE, made |-> made, val |-> <<>>, pos |-> pos, err |-> err]

\* state.bytes.get(i)
At(s, i) == IF i <= Len(s) THEN s[i] ELSE "EOF"

\* The position after the longest run of bytes of `set` that starts at i.
RunEnd(s, i, set) ==
    CHOOSE j \in i .. Len(s) + 1 :
        /\ j = Len(s) + 1 \/ s[j] \notin set
        /\ \A k \in i .. j - 1 : s[k] \in set

StartsWith(s, i, text) ==
    /\ i + Len(text) - 1 <= Len(s)
    /\ SubSeq(s, i, i + Len(text) - 1) = text

\* one_of!: the alternatives in order; the first that succeeds or fails
\* with MadeProgress is the result, the last one's result otherwise.
RECURSIVE OneOf(_)
OneOf(results) ==
    IF Len(results) = 1 \/ results[1].ok \/ results[1].made
    THEN results[1]
    ELSE OneOf(Tail(results))

\* optional: None when the child fails with NoProgress; a failure with
\* MadeProgress is passed on.
optional(r, pos) ==
    IF r.ok THEN ParseOk(r.made, <<"Some", r.val>>, r.pos)
    ELSE IF r.made THEN r
    ELSE ParseOk(FALSE, <<"None">>, pos)

\* backtrackable: the result counts as NoProgress, and a failure goes back
\* to the state it started from.
backtrackable(r, pos) ==
    IF r.ok THEN [r EXCEPT !.made = FALSE] ELSE ParseErr(FALSE, r.err, pos)

ascii_string(s, i, text) ==
    IF StartsWith(s, i, text) THEN ParseOk(TRUE, text, i + Len(text))
    ELSE ParseErr(FALSE, "Unexpected", i)

ascii_char(s, i, c) == ascii_string(s, i, <<c>>)

\* space0 / space1: zero or more, one or more blanks.
space0(s, i) ==
    LET j == RunEnd(s, i, {" "}) IN ParseOk(j > i, <<>>, j)

space1(s, i) ==
    LET j == RunEnd(s, i, {" "})
    IN  IF j > i THEN ParseOk(TRUE, <<>>, j) ELSE ParseErr(FALSE, "Space", i)

\* ident(): a letter, then letters and digits.
ident(s, i) ==
    IF At(s, i) \in Letters
    THEN LET j == RunEnd(s, i, Letters \cup Digits)
         IN  ParseOk(TRUE, SubSeq(s, i, j - 1), j)
    ELSE ParseErr(FALSE, "Ident", i)

\* number_literal(): digits with an optional sign in front; a `-` without a
\* digit after it is no number.
number_literal(s, i) ==
    LET from == IF At(s, i) = "-" THEN i + 1 ELSE i
        j    == RunEnd(s, from, Digits)
    IN  IF j > from THEN ParseOk(TRUE, <<"Num", SubSeq(s, i, j - 1)>>, j)
        ELSE ParseErr(FALSE, "NumberEnd", i)

\* The keywords that end a list of function arguments.
Keywords ==
    {<<"i", "f">>, <<"t", "h", "e", "n">>, <<"e", "l", "s", "e">>,
     <<"w", "h", "e", "n">>, <<"i", "s">>, <<"a", "s">>}

reserved_keyword(s, i) == \E k \in Keywords : StartsWith(s, i, k)

\* The operator texts with every one-byte operator before the two-byte
\* operators that begin with it.
BinOpsShortFirst ==
    << <<"Pizza", <<"|", ">">> >>,          <<"Equals", <<"=", "=">> >>,
       <<"NotEquals", <<"!", "=">> >>,      <<"And", <<"&", "&">> >>,
       <<"Or", <<"|", "|">> >>,             <<"Plus", <<"+">> >>,
       <<"Star", <<"*">> >>,                <<"Minus", <<"-">> >>,
       <<"Slash", <<"/">> >>,               <<"DoubleSlash", <<"/", "/">> >>,
       <<"LessThan", <<"<">> >>,            <<"LessThanOrEq", <<"<", "=">> >>,
       <<"GreaterThan", <<">">> >>,         <<"GreaterThanOrEq", <<">", "=">> >>,
       <<"Caret", <<"^">> >>,               <<"Percent", <<"%">> >>,
       <<"DoublePercent", <<"%", "%">> >> >>

\* binop(): the operator texts in the order in which they are tried.
BinOps ==
    << <<"Pizza", <<"|", ">">> >>,          <<"Equals", <<"=", "=">> >>,
       <<"NotEquals", <<"!", "=">> >>,      <<"And", <<"&", "&">> >>,
       <<"Or", <<"|", "|">> >>,             <<"Plus", <<"+">> >>,
       <<"Star", <<"*">> >>,                <<"Minus", <<"-">> >>,
       <<"DoubleSlash", <<"/", "/">> >>,    <<"Slash", <<"/">> >>,
       <<"LessThanOrEq", <<"<", "=">> >>,   <<"LessThan", <<"<">> >>,
       <<"GreaterThanOrEq", <<">", "=">> >>, <<"GreaterThan", <<">">> >>,
       <<"Caret", <<"^">> >>,               <<"DoublePercent", <<"%", "%">> >>,
       <<"Percent", <<"%">> >> >>

binop(s, i) ==
    OneOf([k \in 1 .. Len(BinOps) |->
              LET r == ascii_string(s, i, BinOps[k][2])
              IN  IF r.ok THEN ParseOk(TRUE, BinOps[k][1], r.pos) ELSE r])

\* An atom that starts with a byte or a keyword of its own: without it the
\* atom fails with NoProgress.
opens_with(s, i, opener) ==
    IF StartsWith(s, i, opener) THEN ParseErr(TRUE, "Unmodelled", i)
    ELSE ParseErr(FALSE, "Start", i)

\* A last alternative that reports progress.
fail_expr_start_progress(s, i) == ParseErr(TRUE, "Start", i)

\* The last alternative of the atoms: "expression expected", NoProgress.
fail_expr_start(s, i) == ParseErr(FALSE, "Start", i)

unary_not(s, i) ==
    IF At(s, i) = "!" /\ At(s, i + 1) # "="
    THEN ParseOk(TRUE, <<>>, i + 1)
    ELSE ParseErr(FALSE, "UnaryNot", i)

\* unary_negate tests for `!`, as the source does.
unary_negate(s, i) ==
    LET followed_by_whitespace == At(s, i + 1) = " "
    IN  IF At(s, i) = "!" /\ ~followed_by_whitespace
        THEN ParseOk(TRUE, <<>>, i + 1)
        ELSE ParseErr(FALSE, "UnaryNot", i)

\* The parsers of expressions call one another in a cycle; Parse names the
\* parser to run, so that each is written once, in the order of the source.
RECURSIVE Parse(_, _, _, _)

\* The first alternative of unary_op_help: and!(unary_not, parse_expr).
unary_op_not(s, i) ==
    LET op == unary_not(s, i)
        e  == Parse("parse_expr", s, op.pos, <<>>)
    IN  IF ~op.ok THEN op
        ELSE IF e.ok THEN ParseOk(TRUE, <<"UnaryOp", "Not", e.val>>, e.pos)
        ELSE ParseErr(op.made \/ e.made, e.err, i)

\* The second alternative: and!(unary_negate, parse_expr).
unary_op_negate(s, i) ==
    LET op == unary_negate(s, i)
        e  == Parse("parse_expr", s, op.pos, <<>>)
    IN  IF ~op.ok THEN op
        ELSE IF e.ok THEN ParseOk(TRUE, <<"UnaryOp", "Negate", e.val>>, e.pos)
        ELSE ParseErr(op.made \/ e.made, e.err, i)

unary_op_help(s, i) ==
    OneOf(<<Parse("unary_op_not", s, i, <<>>),
            Parse("unary_op_negate", s, i, <<>>)>>)

\* The atoms of an expression, in the order in which they are tried, with
\* fail_expr_start as the last.
expr_atoms(s, i) ==
    <<opens_with(s, i, <<"(">>),
      opens_with(s, i, <<"\"">>),
      number_literal(s, i),
      opens_with(s, i, <<"\\">>),
      opens_with(s, i, <<"{">>),
      opens_with(s, i, <<"[">>),
      Parse("unary_op_help", s, i, <<>>),
      opens_with(s, i, <<"w", "h", "e", "n">>),
      opens_with(s, i, <<"i", "f">>),
      Parse("ident_etc_help", s, i, <<>>),
      fail_expr_start(s, i)>>

loc_parse_expr_body_without_operators(s, i) == OneOf(expr_atoms(s, i))

\* The atoms of a function argument; the last is ident_without_apply.
function_arg_atoms(s, i) ==
    <<opens_with(s, i, <<"(">>),
      opens_with(s, i, <<"\"">>),
      number_literal(s, i),
      opens_with(s, i, <<"\\">>),
      opens_with(s, i, <<"{">>),
      opens_with(s, i, <<"[">>),
      Parse("unary_op_help", s, i, <<>>),
      opens_with(s, i, <<"w", "h", "e", "n">>),
      opens_with(s, i, <<"i", "f">>),
      LET id == ident(s, i)
      IN  IF id.ok THEN ParseOk(id.made, <<"Var", id.val>>, id.pos)
          ELSE id>>

loc_parse_function_arg(s, i) == OneOf(function_arg_atoms(s, i))

\* skip_first!(not(and!(reserved_keyword(), space1)), loc_parse_function_arg)
loc_function_arg(s, i) ==
    IF \E k \in Keywords :
           StartsWith(s, i, k) /\ space1(s, i + Len(k)).ok
    THEN ParseErr(FALSE, "ConditionFailed", i)
    ELSE Parse("loc_parse_function_arg", s, i, <<>>)

\* Every byte counts as one that may not follow the `-`.
negate_stop_always(s, i) == TRUE

\* one_of!(' ', '#', newline, '>'): the bytes that may not follow the `-`
\* or the number.
negate_stop(s, i) == At(s, i) \in {" ", "#", "\n", ">"}

\* either! with the `-` tried before the number literal.
number_or_minus_swapped(s, i) ==
    LET minus == ascii_char(s, i, "-")
        num   == number_literal(s, i)
    IN  IF minus.ok THEN [minus EXCEPT !.val = <<"Second">>]
        ELSE [num EXCEPT !.val = <<"First", num.val>>]

\* either!(loc!(number_literal()), loc!(ascii_char(b'-')))
number_or_minus(s, i) ==
    LET num   == number_literal(s, i)
        minus == ascii_char(s, i, "-")
    IN  IF num.ok \/ num.made THEN [num EXCEPT !.val = <<"First", num.val>>]
        ELSE [minus EXCEPT !.val = <<"Second">>]

\* then(not_followed_by(either!(number, '-'), one_of!(..)), callback)
unary_negate_function_arg(s, i) ==
    LET first == number_or_minus(s, i)
    IN  IF ~first.ok THEN first
        ELSE IF negate_stop(s, first.pos)
             THEN ParseErr(FALSE, "ConditionFailed", i)
        ELSE IF first.val[1] = "First"
             THEN ParseOk(TRUE, first.val[2], first.pos)
        ELSE LET arg == Parse("loc_function_arg", s, first.pos, <<>>)
             IN  IF ~arg.ok THEN arg
                 ELSE ParseOk(TRUE, <<"UnaryOp", "Negate", arg.val>>, arg.pos)

\* One function argument with the blanks before it:
\* and!(backtrackable(space1), one_of!(unary_negate_function_arg,
\* loc_function_arg)).
function_args_item(s, i) ==
    LET sp  == backtrackable(space1(s, i), i)
        arg == OneOf(<<Parse("unary_negate_function_arg", s, sp.pos, <<>>),
                       Parse("loc_function_arg", s, sp.pos, <<>>)>>)
    IN  IF ~sp.ok THEN sp
        ELSE IF arg.ok THEN ParseOk(sp.made \/ arg.made, arg.val, arg.pos)
        ELSE ParseErr(sp.made \/ arg.made, arg.err, i)

\* one_or_more!, after the first argument.
function_args_more(s, i, args) ==
    LET item == Parse("function_args_item", s, i, <<>>)
    IN  IF item.ok THEN Parse("function_args_more", s, item.pos, Append(args, item.val))
        ELSE IF item.made THEN item
        ELSE ParseOk(TRUE, args, i)

loc_function_args(s, i) ==
    LET item == Parse("function_args_item", s, i, <<>>)
    IN  IF item.ok THEN Parse("function_args_more", s, item.pos, <<item.val>>)
        ELSE item

\* either!(equals_with_indent_help(), colon_with_indent_help())
equals_or_colon(s, i) ==
    IF At(s, i) = "=" /\ At(s, i + 1) \notin {"=", ">", "EOF"}
    THEN ParseOk(TRUE, "Equals", i + 1)
    ELSE IF At(s, i) = ":" THEN ParseOk(TRUE, "Colon", i + 1)
    ELSE ParseErr(FALSE, "Equals", i)

\* An identifier, with the arguments or the `=` or `:` that follow it.  What
\* follows a `=` or `:` is a def, which the source texts do not hold.
ident_etc_help(s, i) ==
    LET id   == ident(s, i)
        args == optional(Parse("loc_function_args", s, id.pos, <<>>), id.pos)
        sp   == backtrackable(space0(s, args.pos), args.pos)
        eq   == equals_or_colon(s, sp.pos)
        def  == optional(IF eq.ok THEN eq ELSE ParseErr(eq.made, eq.err, args.pos),
                         args.pos)
    IN  IF ~id.ok THEN id
        ELSE IF ~args.ok THEN ParseErr(TRUE, args.err, i)
        ELSE IF ~def.ok THEN ParseErr(TRUE, def.err, i)
        ELSE IF def.val[1] = "Some"
             THEN IF args.val[1] = "Some" /\ def.val[2] = "Equals"
                  THEN ParseErr(TRUE, "ElmStyleFunction", def.pos)
                  ELSE ParseOk(TRUE, <<"Def", id.val, def.val[2]>>, def.pos)
        ELSE IF args.val[1] = "Some"
             THEN ParseOk(TRUE, <<"Apply", <<"Var", id.val>>, args.val[2]>>,
                          args.pos)
        ELSE ParseOk(TRUE, <<"Var", id.val>>, id.pos)

\* An atom, then optionally blanks, a binary operator, blanks and the
\* right operand.
parse_expr(s, i) ==
    LET e1  == Parse("loc_parse_expr_body_without_operators", s, i, <<>>)
        sp  == space0(s, e1.pos)
        op  == binop(s, sp.pos)
        sp2 == space0(s, op.pos)
        e2  == Parse("parse_expr", s, sp2.pos, <<>>)
        rest == IF ~op.ok THEN ParseErr(sp.made \/ op.made, op.err, e1.pos)
                ELSE IF ~e2.ok THEN ParseErr(TRUE, e2.err, e1.pos)
                ELSE ParseOk(TRUE, <<op.val, e2.val>>, e2.pos)
        opt == optional(rest, e1.pos)
    IN  IF ~e1.ok THEN e1
        ELSE IF ~opt.ok THEN ParseErr(TRUE, opt.err, i)
        ELSE IF opt.val[1] = "Some"
             THEN ParseOk(TRUE,
                          <<"BinOp", e1.val, opt.val[2][1], opt.val[2][2]>>,
                          opt.pos)
        ELSE ParseOk(e1.made, e1.val, e1.pos)

Parse(fn, s, i, args) ==
    CASE fn = "parse_expr" -> parse_expr(s, i)
      [] fn = "loc_parse_expr_body_without_operators" ->
             loc_parse_expr_body_without_operators(s, i)
      [] fn = "unary_op_not" -> unary_op_not(s, i)
      [] fn = "unary_op_negate" -> unary_op_negate(s, i)
      [] fn = "unary_op_help" -> unary_op_help(s, i)
      [] fn = "ident_etc_help" -> ident_etc_help(s, i)
      [] fn = "loc_function_args" -> loc_function_args(s, i)
      [] fn = "function_args_item" -> function_args_item(s, i)
      [] fn = "function_args_more" -> function_args_more(s, i, args)
      [] fn = "unary_negate_function_arg" -> unary_negate_function_arg(s, i)
      [] fn = "loc_function_arg" -> loc_function_arg(s, i)
      [] fn = "loc_parse_function_arg" -> loc_parse_function_arg(s, i)

\* The source texts: every text of at most MaxLen bytes in which a `=` only
\* stands right after a `!`, so that no text holds a def.
SrcInputs ==
    {s \in UNION {[1 .. n -> Bytes] : n \in 0 .. MaxLen} :
        \A k \in 1 .. Len(s) : s[k] = "=" => (k > 1 /\ s[k - 1] = "!")}

\* parse_expr applied at the start of a source text.
ParseExpr ==
    /\ p_in.kind = "src"
    /\ p_out = <<>>
    /\ p_out' = <<[fn |-> "parse_expr",
                   r  |-> Parse("parse_expr", p_in.s, 1, <<>>)]>>
    /\ UNCHANGED <<p_in, load_vars>>

\* unary_op applied at the start of a source text.
UnaryOp ==
    /\ p_in.kind = "src"
    /\ p_out = <<>>
    /\ p_out' = <<[fn     |-> "unary_op",
                   not    |-> Parse("unary_op_not", p_in.s, 1, <<>>),
                   negate |-> Parse("unary_op_negate", p_in.s, 1, <<>>),
                   r      |-> Parse("unary_op_help", p_in.s, 1, <<>>)]>>
    /\ UNCHANGED <<p_in, load_vars>>

\* The alternation over the atoms at the start of the text, with the result
\* of every alternative.
Atoms ==
    /\ p_in.kind = "src"
    /\ p_out = <<>>
    /\ p_out' =
           <<[fn       |-> "atoms",
              alts     |-> expr_atoms(p_in.s, 1),
              r        |-> Parse("loc_parse_expr_body_without_operators",
                                 p_in.s, 1, <<>>),
              arg_alts |-> function_arg_atoms(p_in.s, 1),
              arg_r    |-> Parse("loc_parse_function_arg", p_in.s, 1, <<>>)]>>
    /\ UNCHANGED <<p_in, load_vars>>

\* The bytes of the operator texts, and a letter.
OpBytes == {"|", ">", "=", "!", "&", "+", "*", "-", "/", "<", "^", "%", "x"}

\* Longest text handed to binop.
MaxOpLen == 3

OpInputs ==
    [kind : {"op"}, s : UNION {[1 .. n -> OpBytes] : n \in 0 .. MaxOpLen}]

\* binop applied at the start of a text.
BinOp ==
    /\ p_in.kind = "op"
    /\ p_out = <<>>
    /\ p_out' = <<[fn |-> "binop", r |-> binop(p_in.s, 1)]>>
    /\ UNCHANGED <<p_in, load_vars>>

(***************************************************************************)
(* when: the alignment of the alternative patterns of a branch             *)
(* (src/compiler/parse/src/expr.rs, mod when).  A branch is given by the   *)
(* start columns of its alternatives; original_indent is the column of     *)
(* the first pattern of the first branch.  Columns are u16.                *)
(***************************************************************************)

\* Rightmost start column of a pattern.
MaxCol == 3

\* Most alternatives in one branch.
MaxAlts == 3

\* a - b on u16, as the one-element sequence of the result: with overflow
\* checks (the default of a debug build) a result below zero panics and
\* there is none, without them it wraps.
sub_u16(a, b, overflow_checks) ==
    IF a >= b THEN <<a - b>>
    ELSE IF overflow_checks THEN <<>>
    ELSE <<(a - b + 65536) % 65536>>

\* Every alternative that is not at the column counts as misplaced.
not_at(start_col, original_indent) == start_col # original_indent

\* when_pattern.region.start_col < original_indent
left_of(start_col, original_indent) == start_col < original_indent

\* The loop over the alternatives after the first.
RECURSIVE rest_indented_correctly(_, _, _)
rest_indented_correctly(rest, original_indent, overflow_checks) ==
    IF rest = <<>> THEN [res |-> "Ok"]
    ELSE IF left_of(Head(rest), original_indent)
    THEN [res |-> "Err",
          indent |-> sub_u16(original_indent, Head(rest), overflow_checks)]
    ELSE rest_indented_correctly(Tail(rest), original_indent, overflow_checks)

alternatives_indented_correctly(loc_patterns, original_indent, overflow_checks) ==
    LET first == Head(loc_patterns)
        rest  == Tail(loc_patterns)
        first_indented_correctly == first = original_indent
    IN  IF first_indented_correctly
        THEN rest_indented_correctly(rest, original_indent, overflow_checks)
        ELSE [res |-> "Err",
              indent |-> sub_u16(original_indent, first, overflow_checks)]

\* The step of `branches` that follows branch_alternatives for a branch
\* after the first: Ok and Err both with MadeProgress; a panic of the
\* subtraction ends the parse.
branch_alignment(loc_patterns, original_indent, overflow_checks) ==
    LET a == alternatives_indented_correctly(loc_patterns, original_indent,
                                             overflow_checks)
    IN  IF a.res = "Ok" THEN [res |-> "Ok", made |-> TRUE]
        ELSE IF a.indent = <<>> THEN [res |-> "Panic"]
        ELSE [res |-> "Err", made |-> TRUE,
              err |-> <<"PatternAlignment", a.indent[1]>>]

\* The branches handed to the check: one to MaxAlts alternatives.
WhenInputs ==
    [kind : {"when"}, original_indent : 0 .. MaxCol,
     cols : UNION {[1 .. n -> 0 .. MaxCol] : n \in 1 .. MaxAlts}]

WhenBranch ==
    /\ p_in.kind = "when"
    /\ p_out = <<>>
    /\ p_out' = <<[fn |-> "branches",
                   r  |-> branch_alignment(p_in.cols, p_in.original_indent,
                                           debug)]>>
    /\ UNCHANGED <<p_in, load_vars>>

(***************************************************************************)
(* expr_to_pattern (src/compiler/parse/src/expr.rs).  An expression is a   *)
(* tuple that starts with the name of its variant.  Of the variants that   *)
(* expr_to_pattern rejects without looking inside, only the name is kept.  *)
(***************************************************************************)

\* Deepest nesting of the expressions handed to expr_to_pattern.
MaxDepth == 1

\* The variants without a sub-expression that expr_to_pattern looks at; a
\* Var carries its module name, which is empty for a plain variable.
LeafExprs ==
    {<<"Var", "">>, <<"Var", "M">>} \cup
    {<<v>> : v \in {"GlobalTag", "PrivateTag", "Float", "Num",
                    "NonBase10Int", "Str", "AccessorFunction", "Access",
                    "List", "Closure", "BinOp", "Defs", "If", "When",
                    "MalformedClosure", "PrecedenceConflict", "UnaryOp",
                    "MalformedIdent"}}

\* The leaves that stand below another expression.
SubLeaves == {<<"Var", "">>, <<"Num">>, <<"BinOp">>, <<"MalformedIdent">>}

\* The fields of a record over the values vs.
FieldsOver(vs) ==
    LET plain == {<<"RequiredValue", v>> : v \in vs}
                 \cup {<<"OptionalValue", v>> : v \in vs}
                 \cup {<<"LabelOnly">>, <<"Malformed">>}
    IN  plain \cup {<<"SpaceBefore", f>> : f \in plain}
              \cup {<<"SpaceAfter", f>> : f \in plain}

\* The fields that stand next to another field of a record.
SideFields ==
    {<<"LabelOnly">>, <<"Malformed">>, <<"RequiredValue", <<"Var", "">>>>,
     <<"RequiredValue", <<"BinOp">>>>}

\* The expressions with sub-expressions, one of which is drawn from es and
\* the others from SubLeaves.
CompoundOver(es) ==
    {<<w, e>> : w \in {"SpaceBefore", "SpaceAfter", "ParensAround", "Nested"},
                e \in es}
    \cup {<<"Apply", f, <<a>>>> : f \in es, a \in SubLeaves}
    \cup {<<"Apply", f, args>> :
              f \in SubLeaves,
              args \in {<<a>> : a \in es}
                       \cup {<<a, b>> : a \in es, b \in SubLeaves}
                       \cup {<<b, a>> : a \in es, b \in SubLeaves}}
    \cup {<<"Record", update, fields>> :
              update \in {"None", "Some"},
              fields \in {<<>>} \cup {<<f>> : f \in FieldsOver(es)}
                        \cup {<<f, g>> : f \in FieldsOver(es), g \in SideFields}
                        \cup {<<g, f>> : f \in FieldsOver(es), g \in SideFields}}

RECURSIVE SubExprs(_)
SubExprs(d) ==
    IF d = 0 THEN SubLeaves
    ELSE SubExprs(d - 1) \cup CompoundOver(SubExprs(d - 1))

\* The expressions handed to expr_to_pattern.
ExprInputs ==
    LeafExprs \cup
    (IF MaxDepth = 0 THEN {} ELSE CompoundOver(SubExprs(MaxDepth - 1)))

InvalidPattern == <<"Err", "InvalidPattern">>

PatternOk(pattern) == <<"Ok", pattern>>

\* Every record counts as one without an update source.
update_any(update) == TRUE

\* Record { update: None, .. }
update_is_none(update) == update = "None"

RECURSIVE expr_to_pattern(_)
RECURSIVE assigned_expr_field_to_pattern(_)

\* The results of expr_to_pattern on the expressions es: Err when one of
\* them fails (the `?` in the loops), the patterns otherwise.
all_to_patterns(es) ==
    IF \E k \in 1 .. Len(es) : expr_to_pattern(es[k]) = InvalidPattern
    THEN InvalidPattern
    ELSE PatternOk([k \in 1 .. Len(es) |-> expr_to_pattern(es[k])[2]])

fields_to_patterns(fields) ==
    IF \E k \in 1 .. Len(fields) :
           assigned_expr_field_to_pattern(fields[k]) = InvalidPattern
    THEN InvalidPattern
    ELSE PatternOk([k \in 1 .. Len(fields) |->
                       assigned_expr_field_to_pattern(fields[k])[2]])

assigned_expr_field_to_pattern(assigned_field) ==
    LET tag == assigned_field[1] IN
    CASE tag = "RequiredValue" ->
             LET pattern == expr_to_pattern(assigned_field[2])
             IN  IF pattern = InvalidPattern THEN InvalidPattern
                 ELSE PatternOk(<<"RequiredField", pattern[2]>>)
      [] tag = "OptionalValue" ->
             PatternOk(<<"OptionalField", assigned_field[2]>>)
      [] tag = "LabelOnly" -> PatternOk(<<"Identifier">>)
      [] tag \in {"SpaceBefore", "SpaceAfter"} ->
             LET nested == assigned_expr_field_to_pattern(assigned_field[2])
             IN  IF nested = InvalidPattern THEN InvalidPattern
                 ELSE PatternOk(<<tag, nested[2]>>)
      [] tag = "Malformed" -> PatternOk(<<"Malformed">>)

expr_to_pattern(expr) ==
    LET tag == expr[1] IN
    CASE tag = "Var" ->
             IF expr[2] = "" THEN PatternOk(<<"Identifier">>)
             ELSE PatternOk(<<"QualifiedIdentifier", expr[2]>>)
      [] tag = "GlobalTag" -> PatternOk(<<"GlobalTag">>)
      [] tag = "PrivateTag" -> PatternOk(<<"PrivateTag">>)
      [] tag = "Apply" ->
             LET value == expr_to_pattern(expr[2])
                 arg_patterns == all_to_patterns(expr[3])
             IN  IF value = InvalidPattern \/ arg_patterns = InvalidPattern
                 THEN InvalidPattern
                 ELSE PatternOk(<<"Apply", value[2], arg_patterns[2]>>)
      [] tag \in {"SpaceBefore", "SpaceAfter"} ->
             LET sub == expr_to_pattern(expr[2])
             IN  IF sub = InvalidPattern THEN InvalidPattern
                 ELSE PatternOk(<<tag, sub[2]>>)
      [] tag \in {"ParensAround", "Nested"} -> expr_to_pattern(expr[2])
      [] tag = "Record" /\ update_is_none(expr[2]) ->
             LET loc_patterns == fields_to_patterns(expr[3])
             IN  IF loc_patterns = InvalidPattern THEN InvalidPattern
                 ELSE PatternOk(<<"RecordDestructure", loc_patterns[2]>>)
      [] tag = "Float" -> PatternOk(<<"FloatLiteral">>)
      [] tag = "Num" -> PatternOk(<<"NumLiteral">>)
      [] tag = "NonBase10Int" -> PatternOk(<<"NonBase10Literal">>)
      [] \/ tag \in {"AccessorFunction", "Access", "List", "Closure", "BinOp",
                     "Defs", "If", "When", "MalformedClosure",
                     "PrecedenceConflict", "UnaryOp"}
         \/ tag = "Record" /\ ~update_is_none(expr[2]) -> InvalidPattern
      [] tag = "Str" -> PatternOk(<<"StrLiteral">>)
      [] tag = "MalformedIdent" -> PatternOk(<<"Malformed">>)

ExprToPattern ==
    /\ p_in.kind = "expr"
    /\ p_out = <<>>
    /\ p_out' = <<[fn |-> "expr_to_pattern", r |-> expr_to_pattern(p_in.expr)]>>
    /\ UNCHANGED <<p_in, load_vars>>

(***************************************************************************)
(* An annotation and the body def after it (def and                        *)
(* parse_def_signature_help in src/compiler/parse/src/expr.rs).  After the *)
(* type of the annotation comes `gap`: a newline, a line comment, or       *)
(* something else; `next` is the line after it: the column at which it     *)
(* starts, whether it is a pattern followed by `=` and an expression, and  *)
(* the label of that pattern.                                              *)
(***************************************************************************)

Labels == {"foo", "bar"}

DefInputs ==
    [kind : {"def"}, indent_level : 0 .. MaxCol, ann_label : Labels,
     gap : {"newline", "comment", "other"},
     next : [col : 0 .. MaxCol, is_body : BOOLEAN, label : Labels]]

\* spaces_then_comment_or_newline: None after a newline, the comment after
\* a line comment.
spaces_then_comment_or_newline(gap) ==
    CASE gap = "newline" -> ParseOk(TRUE, <<>>, 0)
      [] gap = "comment" -> ParseOk(TRUE, <<"comment">>, 0)
      [] OTHER -> ParseErr(FALSE, "Unexpected", 0)

\* A body is taken at whatever column it starts.
body_at_any_indent(indent_level, next) ==
    IF next.is_body
    THEN ParseOk(TRUE, [body_pattern |-> next.label], 0)
    ELSE ParseErr(FALSE, "Body", 0)

\* body_at_indent: spaces_exactly(indent_level), then a pattern, `=` and an
\* expression.
body_at_indent(indent_level, next) ==
    IF next.col = indent_level /\ next.is_body
    THEN ParseOk(TRUE, [body_pattern |-> next.label], 0)
    ELSE ParseErr(FALSE, "Body", 0)

\* The def made of an annotation of ann_pattern: with a body found by
\* optional(and!(spaces_then_comment_or_newline, body_at_indent)) an
\* AnnotatedBody, else the annotation by itself.
annotation_def(ann_pattern, indent_level, gap, next) ==
    LET opt_comment == spaces_then_comment_or_newline(gap)
        body        == body_at_indent(indent_level, next)
    IN  IF opt_comment.ok /\ body.ok
        THEN [def          |-> "AnnotatedBody",
              ann_pattern  |-> ann_pattern,
              comment      |-> opt_comment.val,
              body_pattern |-> body.val.body_pattern]
        ELSE [def |-> "Annotation", ann_pattern |-> ann_pattern]

DefAnnotation ==
    /\ p_in.kind = "def"
    /\ p_out = <<>>
    /\ p_out' = <<[fn |-> "def",
                   r  |-> annotation_def(p_in.ann_label, p_in.indent_level,
                                         p_in.gap, p_in.next)]>>
    /\ UNCHANGED <<p_in, load_vars>>

(***************************************************************************)
(* The indent checks at the start of a def.  parse_def_expr_help is called *)
(* for an identifier, a record or a parenthesised pattern followed by `=`, *)
(* parse_def_signature_help for a pattern followed by `:`.  What follows   *)
(* the checks, the parse of the body and of the defs after it, is left at  *)
(* "Body".                                                                 *)
(***************************************************************************)

DefShapes == {"ident_equals", "record_equals", "parens_equals", "colon"}

DefIndentInputs ==
    [kind : {"def_indent"}, shape : DefShapes, min_indent : 0 .. MaxCol,
     def_start_col : 0 .. MaxCol, sign_indent : 0 .. MaxCol]

\* No def counts as outdented.
never_outdented(start_col, min_indent) == FALSE

\* def_start_col < min_indent, original_indent < min_indent
outdented(start_col, min_indent) == start_col < min_indent

parse_def_expr(min_indent, def_start_col, equals_sign_indent) ==
    IF outdented(def_start_col, min_indent)
    THEN ParseErr(FALSE, <<"OutdentedTooFar">>, 0)
    ELSE IF equals_sign_indent < def_start_col
    THEN ParseErr(FALSE, <<"NotYetImplemented">>, 0)
    ELSE ParseOk(TRUE, <<"Body">>, 0)

\* A failure of parse_def_expr is wrapped in EExpr::Def, with its progress.
parse_def_expr_help(min_indent, def_start_col, equals_sign_indent) ==
    LET res == parse_def_expr(min_indent, def_start_col, equals_sign_indent)
    IN  IF res.ok THEN res
        ELSE ParseErr(res.made, <<"Def">> \o res.err, res.pos)

\* original_indent is state.indent_col.
parse_def_signature_help(min_indent, colon_indent, original_indent) ==
    IF outdented(original_indent, min_indent)
    THEN ParseErr(FALSE, <<"IndentDefBody">>, 0)
    ELSE IF colon_indent < original_indent
    THEN ParseErr(FALSE, <<"IndentDefBody">>, 0)
    ELSE ParseOk(TRUE, <<"Body">>, 0)

DefIndent ==
    /\ p_in.kind = "def_indent"
    /\ p_out = <<>>
    /\ p_out' =
           <<[fn |-> "def_indent",
              r  |-> IF p_in.shape = "colon"
                     THEN parse_def_signature_help(p_in.min_indent,
                              p_in.sign_indent, p_in.def_start_col)
                     ELSE parse_def_expr_help(p_in.min_indent,
                              p_in.def_start_col, p_in.sign_indent)]>>
    /\ UNCHANGED <<p_in, load_vars>>

(***************************************************************************)
(* send_interface_header (src/src/load/mod.rs): the two ways in which a    *)
(* header's imports reach the interning tables.  module_ids is the         *)
(* sequence of the names interned, a ModuleId the position of its name;    *)
(* exposed_ident_ids maps a module id to the sequence of its idents, an    *)
(* IdentId being a position in it.  The scope maps an identifier to the    *)
(* Symbol <<module id, ident id>>.  An import is a module name with the    *)
(* identifiers it exposes, `Mod.{ ident }`.                                *)
(***************************************************************************)

\* Most imports of one header.
MaxImports == 2

ModuleNames == {"A", "B", "C"}

ImportEntries ==
    [module_name : ModuleNames, exposed : {<<>>, <<"x">>, <<"y">>}]

HeaderInputs ==
    [kind          : {"header"},
     declared_name : ModuleNames,
     imports       : UNION {[1 .. n -> ImportEntries] : n \in 0 .. MaxImports},
     module_ids    : {<<>>, <<"B">>, <<"C", "A">>},
     exposed_ident_ids : {EmptyMap, Put(EmptyMap, 1, <<"z">>)}]

\* ModuleIds::get_or_insert: the table after the call, and the id.
get_or_insert(module_ids, name) ==
    IF \E id \in 1 .. Len(module_ids) : module_ids[id] = name
    THEN [ids |-> module_ids,
          id  |-> CHOOSE id \in 1 .. Len(module_ids) : module_ids[id] = name]
    ELSE [ids |-> Append(module_ids, name), id |-> Len(module_ids) + 1]

\* What the loops over the imports carry along.  assert_failed records a
\* debug_assert! of add_exposed_to_scope whose condition was false.
HeaderState(module_ids, exposed_ident_ids) ==
    [module_ids |-> module_ids, exposed_ident_ids |-> exposed_ident_ids,
     deps_by_name |-> EmptyMap, scope |-> EmptyMap, assert_failed |-> FALSE]

\* add_exposed_to_scope: every identifier is added to the ident table of
\* module_id, created when absent, and enters the scope as a Symbol of
\* module_id.
RECURSIVE add_exposed_to_scope(_, _, _)
add_exposed_to_scope(h, module_id, exposed) ==
    IF exposed = <<>> THEN h
    ELSE LET idnt      == Head(exposed)
             ident_ids == IF module_id \in DOMAIN h.exposed_ident_ids
                          THEN h.exposed_ident_ids[module_id] ELSE <<>>
             ident_id  == Len(ident_ids) + 1
         IN  add_exposed_to_scope(
                 [h EXCEPT !.assert_failed = @ \/ idnt \in DOMAIN h.scope,
                           !.exposed_ident_ids =
                               Put(@, module_id, Append(ident_ids, idnt)),
                           !.scope = Put(@, idnt, <<module_id, ident_id>>)],
                 module_id, Tail(exposed))

\* Shared branch, first loop: intern the name of every import.
RECURSIVE shared_intern(_, _)
shared_intern(h, imports) ==
    IF imports = <<>> THEN h
    ELSE LET got == get_or_insert(h.module_ids, Head(imports).module_name)
         IN  shared_intern(
                 [h EXCEPT !.module_ids = got.ids,
                           !.deps_by_name =
                               Put(@, Head(imports).module_name, got.id)],
                 Tail(imports))

\* Shared branch, second loop: module_id is the one bound before the loops,
\* the id of the declared name.
RECURSIVE shared_expose(_, _, _)
shared_expose(h, module_id, imports) ==
    IF imports = <<>> THEN h
    ELSE shared_expose(add_exposed_to_scope(h, module_id,
                                            Head(imports).exposed),
                       module_id, Tail(imports))

\* Unique branch: one loop, module_id is the id of the import.
RECURSIVE unique_imports(_, _)
unique_imports(h, imports) ==
    IF imports = <<>> THEN h
    ELSE LET got == get_or_insert(h.module_ids, Head(imports).module_name)
             h1  == [h EXCEPT !.module_ids = got.ids,
                              !.deps_by_name =
                                  Put(@, Head(imports).module_name, got.id)]
         IN  unique_imports(
                 add_exposed_to_scope(h1, got.id, Head(imports).exposed),
                 Tail(imports))

\* send_interface_header with Shared(..) and with Unique(..): the header it
\* sends and the tables it leaves.
send_interface_header(is_shared, declared_name, imports, module_ids, exposed_ident_ids) ==
    LET own == get_or_insert(module_ids, declared_name)
        h0  == HeaderState(own.ids, exposed_ident_ids)
        h   == IF is_shared
               THEN shared_expose(shared_intern(h0, imports), own.id, imports)
               ELSE unique_imports(h0, imports)
    IN  [module_id |-> own.id, deps_by_name |-> h.deps_by_name,
         exposed_imports |-> h.scope, module_ids |-> h.module_ids,
         exposed_ident_ids |-> h.exposed_ident_ids,
         panic |-> debug /\ h.assert_failed]

\* Both paths on the same header and the same tables.
SendInterfaceHeader ==
    /\ p_in.kind = "header"
    /\ p_out = <<>>
    /\ p_out' =
           <<[fn     |-> "send_interface_header",
              shared |-> send_interface_header(TRUE, p_in.declared_name,
                             p_in.imports, p_in.module_ids,
                             p_in.exposed_ident_ids),
              unique |-> send_interface_header(FALSE, p_in.declared_name,
                             p_in.imports, p_in.module_ids,
                             p_in.exposed_ident_ids)]>>
    /\ UNCHANGED <<p_in, load_vars>>

----------------------------------------------------------------------------
(***************************************************************************)
(* when: `branches` applied to the source text that follows `is`           *)
(* (src/compiler/parse/src/expr.rs, mod when).  The text holds number      *)
(* patterns, `|`, `->`, number and string literals, blanks and newlines.   *)
(***************************************************************************)

\* The parsers of this section that call one another, by name (see
\* WhenParse below): args holds the arguments after the position.
RECURSIVE WhenParse(_, _, _, _)

\* The column of the byte at position i: the bytes since the last newline.
Col(s, i) ==
    LET nls == {k \in 1 .. i - 1 : k <= Len(s) /\ s[k] = "\n"}
    IN  IF nls = {} THEN i - 1
        ELSE i - 1 - (CHOOSE k \in nls : \A n \in nls : n <= k)

\* space0_e(min_indent, ..): blanks and newlines; a newline is not crossed
\* when the text after it starts left of min_indent.
space0_e(s, i, min_indent) ==
    LET j == RunEnd(s, i, {" ", "\n"})
        k == RunEnd(s, i, {" "})
    IN  IF j = k \/ Col(s, j) >= min_indent
        THEN ParseOk(j > i, <<>>, j)
        ELSE ParseOk(k > i, <<>>, k)

\* loc_pattern_help on a number pattern; the value is region.start_col.
loc_pattern_help(s, i) ==
    LET j == RunEnd(s, i, Digits)
    IN  IF j > i THEN ParseOk(TRUE, Col(s, i), j)
        ELSE ParseErr(FALSE, "Pattern", i)

\* One alternative of branch_alternatives: backtrackable blanks, the
\* pattern, blanks after it.
alternative(s, i, min_indent) ==
    LET spaces  == backtrackable(space0_e(s, i, min_indent), i)
        loc_pat == loc_pattern_help(s, spaces.pos)
        after   == space0_e(s, loc_pat.pos, min_indent)
    IN  IF ~loc_pat.ok THEN ParseErr(FALSE, loc_pat.err, i)
        ELSE ParseOk(TRUE, loc_pat.val, after.pos)

\* sep_by1(word1(b'|', When::Bar), ..): the start columns of the
\* alternatives.  After a `|` an alternative has to follow.
sep_by1(s, i, min_indent, first) ==
    LET item == alternative(s, i, min_indent)
    IN  IF ~item.ok
        THEN ParseErr(item.made \/ ~first, item.err, i)
        ELSE IF At(s, item.pos) = "|"
        THEN LET more == WhenParse("sep_by1", s, item.pos + 1,
                                   <<min_indent, FALSE>>)
             IN  IF ~more.ok THEN ParseErr(TRUE, more.err, i)
                 ELSE ParseOk(TRUE, <<item.val>> \o more.val, more.pos)
        ELSE ParseOk(TRUE, <<item.val>>, item.pos)

\* branch_alternatives(min_indent): the alternatives; the guard is absent
\* from every text of the input set (keyword `if` fails with NoProgress).
branch_alternatives(s, i, min_indent) ==
    WhenParse("sep_by1", s, i, <<min_indent, TRUE>>)

\* string_literal(): a quote up to the next quote.
string_literal(s, i) ==
    IF At(s, i) # "\"" THEN ParseErr(FALSE, "Start", i)
    ELSE LET close == {k \in i + 1 .. Len(s) : s[k] = "\""}
         IN  IF close = {} THEN ParseErr(TRUE, "EndlessSingle", i)
             ELSE ParseOk(TRUE, <<"Str">>,
                          1 + CHOOSE k \in close : \A n \in close : k <= n)

\* parse_expr(min_indent, ..) on a text whose expressions start with a
\* string or a number literal: the atom, then optionally blanks, a binary
\* operator, blanks and the right operand.
parse_expr_indented(s, i, min_indent) ==
    LET e1  == OneOf(<<string_literal(s, i), number_literal(s, i),
                       fail_expr_start(s, i)>>)
        sp  == space0_e(s, e1.pos, min_indent)
        op  == binop(s, sp.pos)
        sp2 == space0_e(s, op.pos, min_indent)
        e2  == WhenParse("parse_expr", s, sp2.pos, <<min_indent>>)
        rest == IF ~op.ok THEN ParseErr(sp.made \/ op.made, op.err, e1.pos)
                ELSE IF ~e2.ok THEN ParseErr(TRUE, e2.err, e1.pos)
                ELSE ParseOk(TRUE, <<op.val, e2.val>>, e2.pos)
        opt == optional(rest, e1.pos)
    IN  IF ~e1.ok THEN e1
        ELSE IF ~opt.ok THEN ParseErr(TRUE, opt.err, i)
        ELSE IF opt.val[1] = "Some"
             THEN ParseOk(TRUE, <<"BinOp", e1.val, opt.val[2][1],
                                  opt.val[2][2]>>, opt.pos)
        ELSE ParseOk(TRUE, e1.val, e1.pos)

\* branch_result(indent): `->`, blanks, the expression.
branch_result(s, i, indent) ==
    IF ~StartsWith(s, i, <<"-", ">">>) THEN ParseErr(FALSE, "Arrow", i)
    ELSE LET sp == space0_e(s, i + 2, indent)
             e  == WhenParse("parse_expr", s, sp.pos, <<indent>>)
         IN  IF ~e.ok THEN ParseErr(TRUE, e.err, i) ELSE e

\* What `branches` returns: Ok with the number of branches, Err with the
\* problem, or a panic; with the column of the first branch's pattern and
\* the start columns of the alternatives the alignment check was given last.
BranchesResult(res, err, n, original_indent, checked) ==
    [res |-> res, err |-> err, branches |-> n,
     original_indent |-> original_indent, checked |-> checked]

\* The loop of `branches` over the branches after the first.
more_branches(s, i, min_indent, original_indent, overflow_checks, n, checked) ==
    IF i > Len(s) THEN BranchesResult("Ok", <<>>, n, original_indent, checked)
    ELSE
    LET alts == branch_alternatives(s, i, min_indent)
        a    == branch_alignment(alts.val, original_indent, overflow_checks)
        expr == branch_result(s, alts.pos, original_indent + 1)
    IN  IF ~alts.ok
        THEN IF alts.made
             THEN BranchesResult("Err", <<alts.err>>, n, original_indent,
                                 checked)
             ELSE BranchesResult("Ok", <<>>, n, original_indent, checked)
        ELSE IF a.res = "Panic"
        THEN BranchesResult("Panic", <<>>, n, original_indent, alts.val)
        ELSE IF a.res = "Err"
        THEN BranchesResult("Err", a.err, n, original_indent, alts.val)
        ELSE IF ~expr.ok
        THEN BranchesResult("Err", <<expr.err>>, n, original_indent, alts.val)
        ELSE WhenParse("more_branches", s, expr.pos,
                       <<min_indent, original_indent, overflow_checks, n + 1,
                         alts.val>>)

\* branches(min_indent): the first branch sets original_indent, every later
\* one goes through the alignment check.
branches(s, min_indent, overflow_checks) ==
    LET first == branch_alternatives(s, 1, min_indent)
        original_indent == first.val[1]
        expr == branch_result(s, first.pos, original_indent + 1)
    IN  IF ~first.ok THEN BranchesResult("Err", <<first.err>>, 0, 0, <<>>)
        ELSE IF ~expr.ok
        THEN BranchesResult("Err", <<expr.err>>, 0, original_indent, <<>>)
        ELSE WhenParse("more_branches", s, expr.pos,
                       <<min_indent, original_indent, overflow_checks, 1,
                         <<>> >>)

WhenParse(fn, s, i, args) ==
    CASE fn = "sep_by1" -> sep_by1(s, i, args[1], args[2])
      [] fn = "parse_expr" -> parse_expr_indented(s, i, args[1])
      [] fn = "more_branches" ->
             more_branches(s, i, args[1], args[2], args[3], args[4], args[5])
      [] fn = "branches" -> branches(s, args[1], args[2])

\* n blanks.
Spaces(n) == [k \in 1 .. n |-> " "]

\* The texts of one branch whose first pattern starts at column ind, the
\* branch being first on its line.
BranchTexts(ind) ==
    {Spaces(ind) \o pat \o <<"-", ">">> \o res :
        pat \in {<<"1">>, <<"1", "|", "1">>},
        res \in {<<"1">>, <<"\"", "\"">>}}

\* What stands between one branch and the next.
BranchSeps == {<<>>, <<" ">>, <<"\n">>}

\* The texts after `is`: one branch, or two.
WhenSrcInputs ==
    [kind : {"when_src"},
     s : (UNION {BranchTexts(a) : a \in 0 .. MaxCol})
         \cup {b1 \o sep \o b2 :
                 b1 \in UNION {BranchTexts(a) : a \in 0 .. MaxCol},
                 sep \in BranchSeps,
                 b2 \in UNION {BranchTexts(b) : b \in 0 .. MaxCol}}]

\* branches applied to the text after `when .. is`, the keyword at column 0.
WhenBranches ==
    /\ p_in.kind = "when_src"
    /\ p_out = <<>>
    /\ p_out' = <<[fn |-> "when_branches",
                   r  |-> WhenParse("branches", p_in.s, 1, <<0, debug>>)]>>
    /\ UNCHANGED <<p_in, load_vars>>

----------------------------------------------------------------------------
(***************************************************************************)
(* Integer literals: finish_parsing_int, _hex, _oct and _bin of            *)
(* src/src/can/num.rs.  An i64 is kept as a sign and a magnitude of four   *)
(* 16-bit limbs, least significant first, so that the 64-bit range is the  *)
(* real one.                                                               *)
(***************************************************************************)

\* Longest raw text drawn from NumBytes.
MaxRaw == 4

Limb == 2 ^ 16

\* The bytes of the short raw texts: digits of the four bases, a letter
\* that is no digit, the underscore and the signs.
NumBytes == {"0", "1", "8", "a", "F", "g", "_", "-", "+"}

HexLower ==
    <<"0", "1", "2", "3", "4", "5", "6", "7", "8", "9",
      "a", "b", "c", "d", "e", "f">>

HexUpper ==
    <<"0", "1", "2", "3", "4", "5", "6", "7", "8", "9",
      "A", "B", "C", "D", "E", "F">>

\* char::to_digit(radix): the digit as <<d>>, or <<>> for a byte that is no
\* digit of the radix.
to_digit(c, radix) ==
    LET ds == {d \in 0 .. radix - 1 : HexLower[d + 1] = c \/ HexUpper[d + 1] = c}
    IN  IF ds = {} THEN <<>> ELSE <<CHOOSE d \in ds : TRUE>>

\* replace that takes out the first underscore only.
RECURSIVE replace_first(_)
replace_first(raw) ==
    IF raw = <<>> THEN <<>>
    ELSE IF Head(raw) = "_" THEN Tail(raw)
    ELSE <<Head(raw)>> \o replace_first(Tail(raw))

\* raw.replace("_", "")
RECURSIVE replace_underscores(_)
replace_underscores(raw) ==
    IF raw = <<>> THEN <<>>
    ELSE IF Head(raw) = "_" THEN replace_underscores(Tail(raw))
    ELSE <<Head(raw)>> \o replace_underscores(Tail(raw))

ZeroMag == <<0, 0, 0, 0>>

\* mag * radix + d on 64 bits: the limbs of the result and the carry out of
\* the top limb.
mul_add(mag, radix, d) ==
    LET t1 == mag[1] * radix + d
        t2 == mag[2] * radix + t1 \div Limb
        t3 == mag[3] * radix + t2 \div Limb
        t4 == mag[4] * radix + t3 \div Limb
    IN  [mag |-> <<t1 % Limb, t2 % Limb, t3 % Limb, t4 % Limb>>,
         carry |-> t4 \div Limb]

\* The magnitude is one an i64 of that sign has: at most 2^63 - 1, and 2^63
\* for a negative one.
in_i64(neg, mag) ==
    \/ mag[4] < 32768
    \/ neg /\ mag = <<0, 0, 0, 32768>>

\* The digit loop of from_str_radix: checked_mul by the radix, then
\* checked_add (checked_sub for a negative number) of the digit.
RECURSIVE accumulate(_, _, _, _)
accumulate(digits, radix, neg, mag) ==
    IF digits = <<>> THEN <<mag>>
    ELSE LET d == to_digit(Head(digits), radix)
             m == mul_add(mag, radix, IF d = <<>> THEN 0 ELSE d[1])
         IN  IF d = <<>> \/ m.carry > 0 \/ ~in_i64(neg, m.mag) THEN <<>>
             ELSE accumulate(Tail(digits), radix, neg, m.mag)

IntOk(neg, mag) == [ok |-> TRUE, neg |-> neg /\ mag # ZeroMag, mag |-> mag,
                    raw |-> <<>>]

IntErr(raw) == [ok |-> FALSE, neg |-> FALSE, mag |-> ZeroMag, raw |-> raw]

\* i64::from_str_radix(src, radix).map_err(|_| raw): an empty text and a
\* lone sign are errors, one leading `+` or `-` is the sign.
from_str_radix(src, radix, raw) ==
    IF src = <<>> THEN IntErr(raw)
    ELSE LET signed == Head(src) \in {"+", "-"}
             neg    == Head(src) = "-"
             digits == IF signed THEN Tail(src) ELSE src
             acc    == accumulate(digits, radix, neg, ZeroMag)
         IN  IF digits = <<>> \/ acc = <<>> THEN IntErr(raw)
             ELSE IntOk(neg, acc[1])

finish_parsing_int(raw) == from_str_radix(replace_underscores(raw), 10, raw)

finish_parsing_hex(raw) == from_str_radix(replace_underscores(raw), 16, raw)

finish_parsing_oct(raw) == from_str_radix(replace_underscores(raw), 8, raw)

finish_parsing_bin(raw) == from_str_radix(replace_underscores(raw), 2, raw)

\* mag divided by radix: the quotient and the remainder.
div_mod(mag, radix) ==
    LET c4 == mag[4]
        c3 == (c4 % radix) * Limb + mag[3]
        c2 == (c3 % radix) * Limb + mag[2]
        c1 == (c2 % radix) * Limb + mag[1]
    IN  [quot |-> <<c1 \div radix, c2 \div radix, c3 \div radix,
                    c4 \div radix>>,
         rem |-> c1 % radix]

\* The digits of mag in the radix, most significant first, none for zero.
RECURSIVE to_digits(_, _)
to_digits(mag, radix) ==
    IF mag = ZeroMag THEN <<>>
    ELSE LET qr == div_mod(mag, radix)
         IN  to_digits(qr.quot, radix) \o <<qr.rem>>

\* The text of mag in the radix.
Text(mag, radix) ==
    LET ds == to_digits(mag, radix)
    IN  [k \in 1 .. Len(ds) |-> HexLower[ds[k] + 1]]

\* The radixes of the four functions.
Radixes == {2, 8, 10, 16}

\* 2^63 - 1, 2^63 and 2^63 + 1.
EdgeMags ==
    {<<65535, 65535, 65535, 32767>>, <<0, 0, 0, 32768>>, <<1, 0, 0, 32768>>}

\* The texts at the ends of the i64 range in every radix, with either sign,
\* plain and with an underscore after the first digit.
EdgeTexts ==
    LET plain == {sign \o Text(mag, radix) :
                    sign \in {<<>>, <<"-">>}, mag \in EdgeMags,
                    radix \in Radixes}
    IN  plain \cup {SubSeq(t, 1, 2) \o <<"_">> \o SubSeq(t, 3, Len(t)) :
                      t \in plain}

NumInputs ==
    [kind : {"num"},
     raw : (UNION {[1 .. n -> NumBytes] : n \in 0 .. MaxRaw}) \cup EdgeTexts]

\* The four functions applied to a raw text.
FinishParsing ==
    /\ p_in.kind = "num"
    /\ p_out = <<>>
    /\ p_out' = <<[fn |-> "finish_parsing",
                   r  |-> [radix \in Radixes |->
                              CASE radix = 10 -> finish_parsing_int(p_in.raw)
                                [] radix = 16 -> finish_parsing_hex(p_in.raw)
                                [] radix = 8  -> finish_parsing_oct(p_in.raw)
                                [] radix = 2  -> finish_parsing_bin(p_in.raw)]]>>
    /\ UNCHANGED <<p_in, load_vars>>

----------------------------------------------------------------------------
\* The parser functions applied to every input of the bounded sets.  The load
\* session stays where `load` has not been called.

InitParse ==
    /\ status = "Start"
    /\ loaded_modules = {}
    /\ orch = InitOrch
    /\ task = [m \in Modules |-> "idle"]
    /\ msgs = {}
    /\ deps_by_name = EmptyMap
    /\ processed = [m \in Modules |-> <<>>]
    /\ reads = [m \in Modules |-> 0]
    /\ released = {}
    /\ pruned = {}
    /\ assert_failures = {}
    /\ solved_log = <<>>
    /\ result = <<>>
    /\ send_failed = {}
    /\ p_out = <<>>
    \* The alignment of `when` branches and the debug assertion of
    \* add_exposed_to_scope depend on the kind of build.
    /\ \/ p_in \in [kind : {"src"}, s : SrcInputs] /\ debug = FALSE
       \/ p_in \in OpInputs /\ debug = FALSE
       \/ p_in \in WhenInputs /\ debug \in BOOLEAN
       \/ p_in \in WhenSrcInputs /\ debug \in BOOLEAN
       \/ p_in \in [kind : {"expr"}, expr : ExprInputs] /\ debug = FALSE
       \/ p_in \in DefInputs /\ debug = FALSE
       \/ p_in \in DefIndentInputs /\ debug = FALSE
       \/ p_in \in HeaderInputs /\ debug \in BOOLEAN
       \/ p_in \in NumInputs /\ debug = FALSE

NextParse ==
    \/ ParseExpr
    \/ UnaryOp
    \/ Atoms
    \/ BinOp
    \/ WhenBranch
    \/ WhenBranches
    \/ ExprToPattern
    \/ DefAnnotation
    \/ DefIndent
    \/ SendInterfaceHeader
    \/ FinishParsing

SpecParse == InitParse /\ [][NextParse]_vars

----------------------------------------------------------------------------
\* Vocabulary of the parser properties.

\* What the function named fn returned, when it has run.
Ran(fn) == p_out # <<>> /\ p_out[1].fn = fn

IsIdent(w) ==
    /\ Len(w) >= 1
    /\ w[1] \in Letters
    /\ \A k \in 1 .. Len(w) : w[k] \in Letters \cup Digits

IsNumber(w) == Len(w) >= 1 /\ \A k \in 1 .. Len(w) : w[k] \in Digits

\* The operands of the properties: identifiers and unsigned number literals
\* of one or two bytes.
Words == UNION {[1 .. n -> Letters \cup Digits] : n \in 1 .. 2}

IdentOperands == {w \in Words : IsIdent(w)}

NumOperands == {w \in Words : IsNumber(w)}

\* The expression an operand stands for.
Operand(w) == IF IsIdent(w) THEN <<"Var", w>> ELSE <<"Num", w>>

Parsed(val) == p_out[1].r.ok /\ p_out[1].r.val = val

\* C13 as stated: for operands x and y, `x - y`, `x-y` and `x- y` parse to a
\* binary Minus on x and y, and `x -y` parses to the application of x to the
\* one argument UnaryOp(Negate, y).
C13_Claim ==
    Ran("parse_expr") =>
        \A x \in IdentOperands, y \in IdentOperands \cup NumOperands :
            /\ p_in.s \in {x \o <<" ", "-", " ">> \o y, x \o <<"-">> \o y,
                           x \o <<"-", " ">> \o y}
                 => Parsed(<<"BinOp", Operand(x), "Minus", Operand(y)>>)
            /\ p_in.s = x \o <<" ", "-">> \o y
                 => Parsed(<<"Apply", Operand(x),
                             <<<<"UnaryOp", "Negate", Operand(y)>>>>>>)

\* C13 amended: the same for an identifier y; for a number literal y the
\* three binary forms parse to a binary Minus as well, and `x -y` parses to
\* the application of x to the one argument Num(-y), the signed literal.
C13_Amended ==
    Ran("parse_expr") =>
        \A x \in IdentOperands, y \in IdentOperands \cup NumOperands :
            /\ p_in.s \in {x \o <<" ", "-", " ">> \o y, x \o <<"-">> \o y,
                           x \o <<"-", " ">> \o y}
                 => Parsed(<<"BinOp", Operand(x), "Minus", Operand(y)>>)
            /\ p_in.s = x \o <<" ", "-">> \o y
                 => Parsed(<<"Apply", Operand(x),
                             <<IF IsIdent(y)
                               THEN <<"UnaryOp", "Negate", Operand(y)>>
                               ELSE <<"Num", <<"-">> \o y>>>>>>)

\* `x -y` has been parsed.
C13_Witness ==
    /\ Ran("parse_expr")
    /\ p_in.s = <<"x", " ", "-", "y">>
    /\ p_out[1].r.ok

\* C14 as stated: for a number literal n, `foo -n` parses to
\* Apply(Var foo, [UnaryOp(Negate, Num n)]).
C14_Claim ==
    Ran("parse_expr") =>
        \A foo \in IdentOperands, n \in NumOperands :
            p_in.s = foo \o <<" ", "-">> \o n
                => Parsed(<<"Apply", <<"Var", foo>>,
                            <<<<"UnaryOp", "Negate", <<"Num", n>>>>>>>>)

\* C14 amended: for a number literal n, `foo -n` parses to
\* Apply(Var foo, [Num -n]): the minus sign is part of the number literal
\* and there is no UnaryOp node.
C14_Amended ==
    Ran("parse_expr") =>
        \A foo \in IdentOperands, n \in NumOperands :
            p_in.s = foo \o <<" ", "-">> \o n
                => Parsed(<<"Apply", <<"Var", foo>>,
                            <<<<"Num", <<"-">> \o n>>>>>>)

\* `x -1` has been parsed.
C14_Witness ==
    /\ Ran("parse_expr")
    /\ p_in.s = <<"x", " ", "-", "1">>
    /\ p_out[1].r.ok

\* C15: on a text that begins with `!=`, unary_op and both of its
\* alternatives fail with NoProgress and leave the state where it was.
C15_Claim ==
    (Ran("unary_op") /\ StartsWith(p_in.s, 1, <<"!", "=">>)) =>
        \A r \in {p_out[1].not, p_out[1].negate, p_out[1].r} :
            ~r.ok /\ ~r.made /\ r.pos = 1

\* The first alternative, in order, that is not at the column c.
FirstOff(cols, c) ==
    cols[CHOOSE k \in 1 .. Len(cols) :
             cols[k] # c /\ \A j \in 1 .. k - 1 : cols[j] = c]

\* The first alternative after the first that is left of the column c.
FirstLeft(cols, c) ==
    cols[CHOOSE k \in 2 .. Len(cols) :
             cols[k] < c /\ \A j \in 2 .. k - 1 : cols[j] >= c]

\* C16 as stated: a branch after the first is accepted when every one of
\* its alternatives starts at the column of the first branch's pattern; an
\* alternative at another column, left or right, fails the parse with a
\* committed PatternAlignment whose value is the expected column minus the
\* actual one, signed.
C16_Claim ==
    Ran("branches") =>
        LET c == p_in.original_indent IN
        IF \A k \in 1 .. Len(p_in.cols) : p_in.cols[k] = c
        THEN p_out[1].r = [res |-> "Ok", made |-> TRUE]
        ELSE p_out[1].r =
                 [res |-> "Err", made |-> TRUE,
                  err |-> <<"PatternAlignment", c - FirstOff(p_in.cols, c)>>]

\* C16 amended: the first alternative must start at the column; the others
\* must not start left of it and may start right of it.  A first alternative
\* to the left, or else the first later alternative to the left, fails with
\* a committed PatternAlignment(column - actual).  For a first alternative to
\* the right the unsigned subtraction overflows: a panic with overflow
\* checks, PatternAlignment(2^16 + column - actual) without.
C16_Amended ==
    Ran("branches") =>
        LET c     == p_in.original_indent
            cols  == p_in.cols
            r     == p_out[1].r
            Err(d) == [res |-> "Err", made |-> TRUE,
                       err |-> <<"PatternAlignment", d>>]
        IN  CASE cols[1] < c -> r = Err(c - cols[1])
              [] cols[1] > c ->
                     IF debug THEN r = [res |-> "Panic"]
                     ELSE r = Err(65536 + c - cols[1])
              [] cols[1] = c /\ \E k \in 2 .. Len(cols) : cols[k] < c ->
                     r = Err(c - FirstLeft(cols, c))
              [] OTHER -> r = [res |-> "Ok", made |-> TRUE]

\* A branch whose second alternative is right of the first was accepted.
C16_Witness ==
    /\ Ran("branches")
    /\ p_in.original_indent = 2
    /\ p_in.cols = <<2, 3>>
    /\ p_out[1].r.res = "Ok"

\* The shapes that convert to a pattern.  As the claim states them, Nested
\* and MalformedIdent are among the other shapes; in the amended statement
\* Nested converts when its sub-expression does and MalformedIdent converts.
\* A record field converts when it is a label, an optional field, a
\* malformed field, a required field whose value converts, or one of these
\* wrapped in spaces.
RECURSIVE Converts(_, _)
RECURSIVE FieldConverts(_, _)
FieldConverts(f, as_stated) ==
    CASE f[1] = "RequiredValue" -> Converts(f[2], as_stated)
      [] f[1] \in {"SpaceBefore", "SpaceAfter"} -> FieldConverts(f[2], as_stated)
      [] OTHER -> TRUE

Converts(e, as_stated) ==
    CASE e[1] \in {"Var", "GlobalTag", "PrivateTag", "Float", "Num",
                   "NonBase10Int", "Str"} -> TRUE
      [] e[1] = "Apply" ->
             /\ Converts(e[2], as_stated)
             /\ \A k \in 1 .. Len(e[3]) : Converts(e[3][k], as_stated)
      [] e[1] \in {"SpaceBefore", "SpaceAfter", "ParensAround"} ->
             Converts(e[2], as_stated)
      [] e[1] = "Nested" -> ~as_stated /\ Converts(e[2], as_stated)
      [] e[1] = "Record" ->
             /\ e[2] = "None"
             /\ \A k \in 1 .. Len(e[3]) : FieldConverts(e[3][k], as_stated)
      [] e[1] = "MalformedIdent" -> ~as_stated
      [] OTHER -> FALSE

\* C17 as stated: expr_to_pattern succeeds exactly on variables, tags,
\* applications and parenthesised or space-wrapped expressions whose
\* sub-expressions convert, records without update whose fields convert,
\* and the literals; on every other shape, every malformed form among
\* them, it returns the invalid-pattern error.
C17_Claim ==
    Ran("expr_to_pattern") =>
        IF Converts(p_in.expr, TRUE) THEN p_out[1].r[1] = "Ok"
        ELSE p_out[1].r = InvalidPattern

\* C17 amended: the same, with two more shapes that convert: a Nested
\* expression whose sub-expression converts, and a malformed identifier,
\* which becomes the pattern Malformed.  Of the malformed forms only
\* MalformedClosure is rejected.
C17_Amended ==
    Ran("expr_to_pattern") =>
        IF Converts(p_in.expr, FALSE) THEN p_out[1].r[1] = "Ok"
        ELSE p_out[1].r = InvalidPattern

\* An application to a malformed identifier was converted.
C17_Witness ==
    /\ Ran("expr_to_pattern")
    /\ p_in.expr = <<"Apply", <<"Var", "">>, <<<<"MalformedIdent">>>>>>
    /\ p_out[1].r =
           PatternOk(<<"Apply", <<"Identifier">>, <<<<"Malformed">>>>>>)

\* The body def starts on the line after the annotation, at its column.
BodyFollows ==
    /\ p_in.gap \in {"newline", "comment"}
    /\ p_in.next.is_body
    /\ p_in.next.col = p_in.indent_level

Innermost(r) == r.err[Len(r.err)]

\* C19 as stated: for each of the def shapes, a def that starts left of
\* min_indent is rejected with OutdentedTooFar and NoProgress, and a def
\* whose `=` or `:` is left of the def's start column is rejected.
C19_Claim ==
    Ran("def_indent") =>
        LET r == p_out[1].r IN
        /\ p_in.def_start_col < p_in.min_indent
               => ~r.ok /\ ~r.made /\ Innermost(r) = "OutdentedTooFar"
        /\ p_in.sign_indent < p_in.def_start_col => ~r.ok

\* C19 amended: a def that starts left of min_indent is rejected with
\* NoProgress, with OutdentedTooFar for the shapes with `=` and with
\* IndentDefBody for the shape with `:`; otherwise a def whose `=` or `:`
\* is left of its start column is rejected with NoProgress, with
\* NotYetImplemented for `=` and IndentDefBody for `:`; every other def
\* goes on to its body.
C19_Amended ==
    Ran("def_indent") =>
        LET r      == p_out[1].r
            equals == p_in.shape # "colon"
        IN  CASE p_in.def_start_col < p_in.min_indent ->
                     /\ ~r.ok /\ ~r.made
                     /\ r.err = IF equals THEN <<"Def", "OutdentedTooFar">>
                                ELSE <<"IndentDefBody">>
              [] /\ p_in.def_start_col >= p_in.min_indent
                 /\ p_in.sign_indent < p_in.def_start_col ->
                     /\ ~r.ok /\ ~r.made
                     /\ r.err = IF equals THEN <<"Def", "NotYetImplemented">>
                                ELSE <<"IndentDefBody">>
              [] OTHER -> r.ok

\* An annotation that starts left of min_indent was rejected.
C19_Witness ==
    /\ Ran("def_indent")
    /\ p_in.shape = "colon"
    /\ p_in.def_start_col < p_in.min_indent
    /\ p_out[1].r.err = <<"IndentDefBody">>

\* The result of an alternation over alts when its alternatives are tried
\* in order: that of the first alternative that does not fail with
\* NoProgress, or of the last alternative when there is none before it.
FirstToStop(alts) ==
    LET stops == {k \in 1 .. Len(alts) - 1 : alts[k].ok \/ alts[k].made}
    IN  IF stops = {} THEN alts[Len(alts)]
        ELSE alts[CHOOSE k \in stops : \A j \in stops : k <= j]

OpsAtStart == {k \in 1 .. Len(BinOps) : StartsWith(p_in.s, 1, BinOps[k][2])}

\* C21: on a text that begins with an operator, binop returns the longest
\* operator that the text begins with and consumes exactly its bytes; on
\* any other text it fails with NoProgress, nothing consumed.
C21_LongestOperator ==
    Ran("binop") =>
        IF OpsAtStart = {}
        THEN ~p_out[1].r.ok /\ ~p_out[1].r.made /\ p_out[1].r.pos = 1
        ELSE LET k == CHOOSE k \in OpsAtStart :
                          \A j \in OpsAtStart :
                              Len(BinOps[j][2]) <= Len(BinOps[k][2])
             IN  p_out[1].r =
                     ParseOk(TRUE, BinOps[k][1], 1 + Len(BinOps[k][2]))

\* `<=x` was read as LessThanOrEq.
C21_Witness ==
    /\ Ran("binop")
    /\ p_in.s = <<"<", "=", "x">>
    /\ p_out[1].r = ParseOk(TRUE, "LessThanOrEq", 3)

\* The header was sent on path h with every identifier of every import
\* `Mod.{ ident }` interned in the ident table of Mod and in scope as a
\* Symbol of Mod's id.
ImportsInScope(h) ==
    \A k \in 1 .. Len(p_in.imports) :
        LET mod == h.deps_by_name[p_in.imports[k].module_name]
            exposed == p_in.imports[k].exposed
        IN  \A j \in 1 .. Len(exposed) :
                /\ h.exposed_imports[exposed[j]][1] = mod
                /\ mod \in DOMAIN h.exposed_ident_ids
                /\ \E id \in 1 .. Len(h.exposed_ident_ids[mod]) :
                       /\ h.exposed_ident_ids[mod][id] = exposed[j]
                       /\ h.exposed_imports[exposed[j]][2] = id

\* C24: for the same header and the same tables the shared path and the
\* single-owner path produce the same deps_by_name and the same scope, and
\* in both every identifier of an import `Mod.{ ident }` is interned in the
\* ident table of Mod and maps to a Symbol of Mod's id.
C24_Claim ==
    (/\ Ran("send_interface_header")
     /\ ~p_out[1].shared.panic /\ ~p_out[1].unique.panic
     /\ \A k, j \in 1 .. Len(p_in.imports) :
            k # j => /\ p_in.imports[k].module_name # p_in.imports[j].module_name
                     /\ p_in.imports[k].exposed = <<>>
                            \/ p_in.imports[k].exposed # p_in.imports[j].exposed)
        => /\ p_out[1].shared.deps_by_name = p_out[1].unique.deps_by_name
           /\ p_out[1].shared.exposed_imports = p_out[1].unique.exposed_imports
           /\ ImportsInScope(p_out[1].shared)
           /\ ImportsInScope(p_out[1].unique)

\* C29: the u16 subtraction of the PatternAlignment error never underflows:
\* `branches` does not panic in it, and whenever the alignment check of a
\* later branch fails, the offending pattern starts at or left of the column
\* of the first branch's pattern, so the reported difference is at most that
\* column.
C29_Claim ==
    Ran("when_branches") =>
        LET r == p_out[1].r
        IN  /\ r.res # "Panic"
            /\ (r.res = "Err" /\ r.err[1] = "PatternAlignment") =>
                   r.err[2] <= r.original_indent

\* The digits of a radix, in either case.
DigitBytes(radix) ==
    {HexLower[k] : k \in 1 .. radix} \cup {HexUpper[k] : k \in 1 .. radix}

\* The text without its sign.
Unsigned(text) ==
    IF text # <<>> /\ text[1] \in {"+", "-"} THEN Tail(text) ELSE text

\* An optional sign and at least one digit of the radix.
ValidInteger(text, radix) ==
    /\ Unsigned(text) # <<>>
    /\ \A k \in 1 .. Len(Unsigned(text)) : Unsigned(text)[k] \in DigitBytes(radix)

\* The digit values of a text of digits, without the leading zeros.
Significant(digits, radix) ==
    LET first == {k \in 1 .. Len(digits) : digits[k] # "0"}
        from  == IF first = {} THEN Len(digits) + 1
                 ELSE CHOOSE k \in first : \A n \in first : k <= n
    IN  [k \in 1 .. Len(digits) - from + 1 |->
            to_digit(digits[from + k - 1], radix)[1]]

\* a <= b for numbers given by their significant digits.
RECURSIVE DigitsLeq(_, _)
DigitsLeq(a, b) ==
    IF Len(a) # Len(b) THEN Len(a) < Len(b)
    ELSE IF a = <<>> THEN TRUE
    ELSE IF Head(a) # Head(b) THEN Head(a) < Head(b)
    ELSE DigitsLeq(Tail(a), Tail(b))

\* The value of the text is one of an i64: at most 2^63 - 1, or 2^63 below
\* zero.
FitsI64(text, radix) ==
    LET limit == IF text[1] = "-" THEN <<0, 0, 0, 32768>>
                 ELSE <<65535, 65535, 65535, 32767>>
    IN  DigitsLeq(Significant(Unsigned(text), radix), to_digits(limit, radix))

====
